---- MODULE Spec2Model ----
(***************************************************************************)
(* Model of the gws-scanner scan pipeline (cedadev/gws-scanner).           *)
(*                                                                         *)
(* The specifications share the variables of this module:                  *)
(*   SpecDoc    - the document model (models.File): construction and       *)
(*                concurrent incorporate_child calls of absorb threads;    *)
(*   SpecLock   - File.__lock among the absorb threads of the Stage-A      *)
(*                processes;                                               *)
(*   SpecQueue  - the three joinable queues of util.py under put / get /   *)
(*                task_done / join and the abort event;                    *)
(*   Spec       - the scan of volumes by scan_single_gws: coordinator,     *)
(*                walker, Stage-A workers, absorb threads, sink, indices;  *)
(*   SpecWalk   - the Walker (queuescan) alone;                            *)
(*   SpecSink   - the sink (elastic.worker) alone;                         *)
(*   SpecBins   - get_size_bin and get_time_bin;                           *)
(*   SpecConfig - gws_config;                                              *)
(*   SpecDaemon - the daemon loop (daemon.main) around scan_single_gws.    *)
(* Each specification keeps the variables of the others at their initial   *)
(* values.                                                                 *)
(***************************************************************************)
EXTENDS Integers, Sequences, FiniteSets, TLC

VARIABLES
    \* ---- document model (SpecDoc) ----
    dstate,     \* "new" | "built" | "skipped" (lstat warning) | "raised"
    doc,        \* the models.File document (a record), or NoDoc
    rootStat,   \* stat result of the document's own inode
    childStat,  \* sequence: stat result of each child inode
    todo,       \* children no incorporate_child call has been made for yet
    dpc,        \* per absorb thread: "idle" | "lstat" | "lock" | "w1" | "w2" | "dead"
    dchild,     \* per absorb thread: the child of its current call (0: none)
    snap,       \* per absorb thread: the field values its += statements read
    lock,       \* File.__lock: 0 when free, else the thread that holds it
    outcome,    \* per child: "none" | "ok" | "missing" | "raised"
    \* ---- joinable queues (SpecQueue) ----
    qitems,     \* per queue: items put and not yet got
    qunf,       \* per queue: unfinished-task count
    qheld,      \* per queue: items got and not yet marked done
    qjoin,      \* per queue: "no" | "waiting" | "returned"
    qabort,     \* the abort event of the harness
    qjoinlog,   \* per queue: [unf, abort] seen when the join returned, or NoLog
    \* ---- scan pipeline (Spec) ----
    cfg,        \* configuration of the run (never changes)
    vol,        \* volume index: sequence of lifecycle documents, scan id = position
    dataIndex,  \* data index: set of directory documents
    gran,       \* aggregate index: set of granular records
    cpc,        \* coordinator position in scan_single_gws
    cur,        \* scan id of the scan in progress (0: none yet)
    walkLeft,   \* tasks the Walker has still to put
    oldIds,     \* old_scan_ids still to be handled by the supersession loop
    abort,      \* the scan's abort event
    shutdownEv, \* ScanQueueWorker._shutdown
    scanQ,      \* walker -> Stage A queue
    scanUnf,    \* its unfinished-task count
    wpc,        \* per Stage-A worker: position in scanner.worker
    wtask,      \* per Stage-A worker: the task it holds
    wleft,      \* per Stage-A worker: absorptions still to enqueue
    folder,     \* per Stage-A worker: its directory document
    tq,         \* per Stage-A worker: absorb queue
    tunf,       \* per Stage-A worker: unfinished-task count of the absorb queue
    tpc,        \* per absorb thread: "get" | "inc" | "exited"
    titem,      \* per absorb thread: the path it took
    elasticQ,   \* Stage A -> Stage C queue
    eUnf,       \* its unfinished-task count
    staging,    \* the sink worker's staging list
    deleted,    \* scan ids whose data the scan in progress has deleted
    lastResult, \* how the last scan_single_gws call ended: "none" | "ok" | "abort"
                \* | "error" (another exception)
    sinkDied,   \* -1 while the sink process runs; once a bulk write has raised:
                \* the scan that was in progress then (0: none was)
    sinkShut,   \* ElasticQueueWorker._shutdown
    sinkPc,     \* the sink worker: "run" | "exited"
    sinkFed,    \* SpecSink: the number of documents put on the Stage-C queue
    \* ---- calls of pure functions (SpecBins, SpecConfig) ----
    callFn,     \* the function called
    callArgs,   \* the arguments of the calls, one call per entry
    callOut,    \* what the calls made so far returned (or the exception raised)
    \* ---- File.__lock across processes (SpecLock) ----
    startMethod, \* multiprocessing start method of the platform: "fork" | "spawn"
    rlock,      \* per lock object: the thread that holds it, or NoOwner
    lthread,    \* per absorb thread <<process, thread>>: "idle" | "acquire" | "held"
    \* ---- the daemon loop (SpecDaemon) ----
    daemonCfg,  \* config_.scanner["daemon"] as loaded, the portal's answer, --run-forever
    daemonPc,   \* daemon.main: "list" | "scan" | "stopped" | "fatal" | "crashed"
    fail_count, \* main's fail_count
    extra_to_scan, \* the list object config_.scanner["daemon"]["extra_to_scan"]
    listed,     \* what get_gws_list returned in the pass in progress
    passes,     \* passes of the while True loop completed
    lastScan,   \* how the last popped path went: "none" | "skip" | "ok" | "abort" | "error"
    abortsSince \* scans ended by AbortError since the last successful scan

docVars == <<dstate, doc, rootStat, childStat, todo, dpc, dchild, snap, lock, outcome>>
queueVars == <<qitems, qunf, qheld, qjoin, qabort, qjoinlog>>
pipeVars == <<cfg, vol, dataIndex, gran, cpc, cur, walkLeft, oldIds, abort, shutdownEv,
              scanQ, scanUnf, wpc, wtask, wleft, folder, tq, tunf, tpc, titem,
              elasticQ, eUnf, staging, deleted, lastResult, sinkDied,
              sinkShut, sinkPc, sinkFed>>
sinkCtl == <<sinkShut, sinkPc, sinkFed>>
callVars == <<callFn, callArgs, callOut>>
lockVars == <<startMethod, rlock, lthread>>
daemonVars == <<daemonCfg, daemonPc, fail_count, extra_to_scan, listed, passes, lastScan,
                abortsSince>>
vars == <<docVars, queueVars, pipeVars, callVars, lockVars, daemonVars>>

(***************************************************************************)
(* Byte sizes.  Python integers are unbounded and the size bands reach     *)
(* 10^13, beyond the integers of the model checker, so a size is kept as   *)
(* two limbs: size = hi * LIMB + lo with 0 <= lo < LIMB.                    *)
(***************************************************************************)
LIMB == 10^9

Sz(h, l) == [hi |-> h, lo |-> l]

SzZero == Sz(0, 0)

SzAdd(a, b) ==
    LET l == a.lo + b.lo
    IN  [hi |-> a.hi + b.hi + (l \div LIMB), lo |-> l % LIMB]

SzLeq(a, b) == a.hi < b.hi \/ (a.hi = b.hi /\ a.lo <= b.lo)

(***************************************************************************)
(* Classifier: constants.py and categorize.py.                             *)
(***************************************************************************)
\* "from" of each entry of SIZE_BUCKETS, in order.
SIZE_FROM ==
    << Sz(0, -1), Sz(0, 10), Sz(0, 100), Sz(0, 1000), Sz(0, 10000), Sz(0, 100000),
       Sz(0, 1000000), Sz(0, 10000000), Sz(0, 100000000), Sz(1, 0), Sz(10, 0),
       Sz(100, 0), Sz(1000, 0), Sz(10000, 0) >>

\* "key" of each entry of SIZE_BUCKETS, in order.
SIZE_KEYS ==
    << "*-10B", "10B-100B", "100B-1kB", "1kB-10kB", "10kB-100kB", "100kb-1MB",
       "1MB-10MB", "10MB-100MB", "100MB-1GB", "1GB-10GB", "10GB-100GB", "100GB-1TB",
       "1TB-10TB", "10TB-*" >>

\* "from" of each entry of TIME_BUCKETS, in seconds, in order.
TIME_FROM ==
    << -86400, 3600, 86400, 604800, 2592000, 7776000, 15552000, 31536000,
       63072000, 157680000 >>

\* "key" of each entry of TIME_BUCKETS, in order.
TIME_KEYS ==
    << "*-1h", "1h-1d", "1d-1w", "1w-1m", "1m-3m", "3m-6m", "6m-1y", "1y-2y",
       "2y-5y", "5y-*" >>

IndexError == "IndexError"

\* bisect.bisect_right on an ascending list: the number of entries <= x.
BisectRightSize(size) ==
    Cardinality({i \in 1..Len(SIZE_FROM) : SzLeq(SIZE_FROM[i], size)})

\* get_size_bin: keys[bisect_right(values, size)], Python's 0-based index.
\* An index past the end of keys raises IndexError, which nothing catches.
get_size_bin(size) ==
    LET idx == BisectRightSize(size)
    IN  IF idx + 1 <= Len(SIZE_KEYS) THEN SIZE_KEYS[idx + 1] ELSE IndexError

\* Mutant of get_time_bin: the IndexError is not caught.
get_time_bin_uncaught(age) ==
    LET n   == Len(TIME_FROM)
        idx == Cardinality({i \in 1..n : age <= TIME_FROM[n + 1 - i]})
    IN  IF idx + 1 <= n THEN TIME_KEYS[n + 1 - (idx + 1)] ELSE IndexError

\* get_time_bin: values = [now - from] over the reversed buckets (ascending
\* datetimes); bisect_right(values, atime) counts the values <= atime, that is
\* the reversed buckets whose "from" is >= age, with age = now - atime.
\* IndexError (an atime more than a day in the future) is caught and gives
\* the key of the first bucket.
get_time_bin(age) ==
    LET n   == Len(TIME_FROM)
        idx == Cardinality({i \in 1..n : age <= TIME_FROM[n + 1 - i]})
    IN  IF idx + 1 <= n THEN TIME_KEYS[n + 1 - (idx + 1)] ELSE TIME_KEYS[1]

CallIdle == callFn = "none" /\ callArgs = <<>> /\ callOut = <<>>

\* The sizes just below, at and just above s.
SzAround(s) ==
    { (IF s.lo = 0 THEN Sz(s.hi - 1, LIMB - 1) ELSE Sz(s.hi, s.lo - 1)), s,
      Sz(s.hi, s.lo + 1) }

\* Sizes the lookups are called with: 0, 5, the sizes around each band's
\* lower bound from 10 up to 10^13, and 2 * 10^13.
Sizes ==
    {Sz(0, 0), Sz(0, 5), Sz(20000, 0)}
        \cup UNION {SzAround(SIZE_FROM[i]) : i \in 2..Len(SIZE_FROM)}

\* Ages (now - atime, seconds) the lookups are called with: the ages around
\* each band's lower bound, 0, two hours, 400 days, six years, and atimes
\* a second, a minute and two days in the future.
Ages ==
    {0, 7200, 34560000, 189216000, -1, -60, -172800}
        \cup UNION {{TIME_FROM[i] - 1, TIME_FROM[i], TIME_FROM[i] + 1} :
                        i \in 1..Len(TIME_FROM)}

\* Two calls of get_size_bin, or two calls of get_time_bin with the same now.
InitBinVars ==
    /\ callFn \in {"get_size_bin", "get_time_bin"}
    /\ callArgs \in IF callFn = "get_size_bin" THEN Sizes \X Sizes ELSE Ages \X Ages
    /\ callOut = <<>>

\* categorize.py lines 31-35: the next call of get_size_bin.
SizeLookup ==
    /\ callFn = "get_size_bin" /\ Len(callOut) < Len(callArgs)
    /\ callOut' = Append(callOut, get_size_bin(callArgs[Len(callOut) + 1]))
    /\ UNCHANGED <<callFn, callArgs>>
    /\ UNCHANGED <<docVars, queueVars, pipeVars, lockVars, daemonVars>>

\* categorize.py lines 17-28: the next call of get_time_bin.
TimeLookup ==
    /\ callFn = "get_time_bin" /\ Len(callOut) < Len(callArgs)
    /\ callOut' = Append(callOut, get_time_bin(callArgs[Len(callOut) + 1]))
    /\ UNCHANGED <<callFn, callArgs>>
    /\ UNCHANGED <<docVars, queueVars, pipeVars, lockVars, daemonVars>>

(***************************************************************************)
(* Per-volume configuration: ScannerConfig.gws_config.  A configuration   *)
(* table is a function from the keys it has to their values; a list is    *)
(* kept as the set of its entries.                                         *)
(***************************************************************************)
ListFields == {"full_item_walk_dirs", "aggregate_subdir_paths", "aggregate_subdir_names"}

EmptyDict == [k \in {} |-> {}]

\* {**a, **b}: the keys of both, b's value where both have the key.
DictMerge(a, b) ==
    [k \in DOMAIN a \cup DOMAIN b |-> IF k \in DOMAIN b THEN b[k] ELSE a[k]]

\* dict.get(key, default).
DictGet(d, k, default) == IF k \in DOMAIN d THEN d[k] ELSE default

Min(a, b) == IF a <= b THEN a ELSE b

KeyError == [raised |-> "KeyError"]

\* The scan_depth used when the overrides have none (line 149).
NoDepthOverride == 100000

\* gws_config lines 106-151: the volume's own file over the defaults, the
\* per-path table of the main configuration over both, then the overrides
\* added to each list and the smaller scan_depth taken.  config_dict[key] of
\* a key that none of the three tables has raises KeyError.
gws_config(in) ==
    LET merged == DictMerge(DictMerge(in.defaults, in.user), in.configs)
    IN  IF \E k \in ListFields \cup {"scan_depth"} : k \notin DOMAIN merged
        THEN KeyError
        ELSE [k \in DOMAIN merged |->
                 IF k \in ListFields THEN merged[k] \cup DictGet(in.overrides, k, {})
                 ELSE IF k = "scan_depth"
                      THEN Min(merged[k], DictGet(in.overrides, k, NoDepthOverride))
                 ELSE merged[k]]

\* Tables with the list field f and scan_depth, each present or not.
TablesOf(f, lists, depths) ==
    {EmptyDict}
        \cup {(f :> l) : l \in lists}
        \cup {("scan_depth" :> d) : d \in depths}
        \cup {(f :> l) @@ ("scan_depth" :> d) : l \in lists, d \in depths}

\* The inputs of gws_config: defaults with every key, one list field f of
\* which varies (the other two are empty), and for the volume's own file,
\* the per-path table and the overrides any choice of f and scan_depth.
ConfigInputs ==
    UNION { { [ defaults  |-> [k \in ListFields |-> IF k = f THEN dl ELSE {}]
                                @@ ("scan_depth" :> dd),
                user      |-> u,
                configs   |-> c,
                overrides |-> o ] :
                  dl \in {{}, {"a"}}, dd \in {2, 5},
                  u \in TablesOf(f, {{}, {"b"}}, {1, 7}),
                  c \in TablesOf(f, {{"c"}}, {}),
                  o \in TablesOf(f, {{"a"}, {"d"}}, {3}) } : f \in ListFields }

InitConfigVars ==
    /\ callFn = "gws_config"
    /\ callArgs \in {<<in>> : in \in ConfigInputs}
    /\ callOut = <<>>

\* One call of gws_config.
ConfigLookup ==
    /\ callFn = "gws_config" /\ callOut = <<>>
    /\ callOut' = <<gws_config(callArgs[1])>>
    /\ UNCHANGED <<callFn, callArgs>>
    /\ UNCHANGED <<docVars, queueVars, pipeVars, lockVars, daemonVars>>

(***************************************************************************)
(* Document model: models.File.                                            *)
(***************************************************************************)
\* Bounds of SpecDoc.
MaxChildren == 2
DocThreads == 2

NoDoc == [absent |-> TRUE]

\* Stat results the inodes of SpecDoc are drawn from: a small text file, a
\* directory, and a file of 10 TB (10^13 bytes) with an atime in the future.
\* ftype and user are the tokens detect_filetype and username_from_uid give;
\* age is now - atime in seconds (get_time_bin), heat is start_timestamp -
\* atime in seconds (mean_heat), the scan having started 10 s before.
StatFile == [size |-> Sz(0, 5), age |-> 7200, heat |-> 7190, ftype |-> "text__plain",
             user |-> "alice"]
StatDir == [size |-> Sz(0, 4096), age |-> 34560000, heat |-> 34559990,
            ftype |-> "__directory__", user |-> "bob"]
StatHuge == [size |-> Sz(10000, 0), age |-> -100, heat |-> -110,
             ftype |-> "__unknown_file__", user |-> "__unknown_uid_999999__"]
StatKinds == {StatFile, StatDir, StatHuge}

\* dict_count_size() entry with one inode added: the += 1 and += st_size on a
\* defaultdict entry.
Bump(m, k, size) ==
    IF k \in DOMAIN m
    THEN [m EXCEPT ![k] = [count |-> @.count + 1, size |-> SzAdd(@.size, size)]]
    ELSE m @@ (k :> [count |-> 1, size |-> size])

EmptyMap == [k \in {} |-> [count |-> 0, size |-> SzZero]]

\* mean_heat is a quotient of two integers, kept exact as numerator n over
\* denominator d (the rounding of Python's float division is not modelled).
MeanOf(age) == [n |-> age, d |-> 1]

\* incorporate_child lines 196-200, count being already incremented:
\* ((mean_heat * (count - 1)) + age) / count.
MeanUpdate(mean, count, age) ==
    [n |-> mean.n * (count - 1) + age * mean.d, d |-> mean.d * count]

\* Mutant of DocNew: the constructor starts the count at zero.
DocNewCountZero(st) ==
    [ size |-> st.size,
      count |-> 0,
      includes_children |-> FALSE,
      filetypes |-> Bump(EmptyMap, st.ftype, st.size),
      size_bins |-> Bump(EmptyMap, get_size_bin(st.size), st.size),
      heat_bins |-> Bump(EmptyMap, get_time_bin(st.age), st.size),
      users |-> Bump(EmptyMap, st.user, st.size),
      mean_heat |-> MeanOf(st.heat) ]

\* File.__init__ lines 100-161: the keyword arguments handed to
\* super().__init__, which the constructor reaches only when get_size_bin
\* does not raise.
DocNew(st) ==
    [ size |-> st.size,
      count |-> 1,
      includes_children |-> FALSE,
      filetypes |-> Bump(EmptyMap, st.ftype, st.size),
      size_bins |-> Bump(EmptyMap, get_size_bin(st.size), st.size),
      heat_bins |-> Bump(EmptyMap, get_time_bin(st.age), st.size),
      users |-> Bump(EmptyMap, st.user, st.size),
      mean_heat |-> MeanOf(st.heat) ]

\* Mutant of IncFirstHalf: directories are counted but their size is not added.
IncFirstHalfFilesOnly(d, r, st) ==
    [d EXCEPT !.size = IF st.ftype = "__directory__" THEN r.size ELSE SzAdd(r.size, st.size),
              !.count = r.count + 1,
              !.filetypes = Bump(r.filetypes, st.ftype, st.size)]

\* incorporate_child lines 174-179: size, count and the filetypes entry, each a
\* read of the field (the value in r) followed by a write.
IncFirstHalf(d, r, st) ==
    [d EXCEPT !.size = SzAdd(r.size, st.size),
              !.count = r.count + 1,
              !.filetypes = Bump(r.filetypes, st.ftype, st.size)]

\* incorporate_child lines 181-202: the size, heat and user entries and
\* includes_children.
IncSecondHalf(d, r, st) ==
    [d EXCEPT !.size_bins = Bump(r.size_bins, get_size_bin(st.size), st.size),
              !.heat_bins = Bump(r.heat_bins, get_time_bin(st.age), st.size),
              !.users = Bump(r.users, st.user, st.size),
              !.mean_heat = MeanUpdate(r.mean_heat, d.count, st.heat),
              !.includes_children = TRUE]

Threads == 1..DocThreads
Children == 1..Len(childStat)

RECURSIVE SeqsUpTo(_, _)
SeqsUpTo(S, n) ==
    IF n = 0 THEN {<<>>}
    ELSE LET shorter == SeqsUpTo(S, n - 1)
         IN  shorter \cup {Append(s, x) : s \in {q \in shorter : Len(q) = n - 1}, x \in S}

\* Mutant of LockAvailable: the update is not guarded by the lock.
LockAlwaysAvailable(t) == TRUE

\* "with self.__lock" on an RLock: the lock can be taken by thread t when no
\* other thread holds it.
LockAvailable(t) == lock = 0 \/ lock = t

DocIdle ==
    /\ dstate = "new" /\ doc = NoDoc /\ rootStat = StatDir /\ childStat = <<>>
    /\ todo = {} /\ dpc = <<>> /\ dchild = <<>> /\ snap = <<>> /\ lock = 0
    /\ outcome = <<>>

InitDocVars ==
    /\ dstate = "new"
    /\ doc = NoDoc
    /\ rootStat \in StatKinds
    /\ childStat \in SeqsUpTo(StatKinds, MaxChildren)
    /\ todo = 1..Len(childStat)
    /\ dpc = [t \in Threads |-> "idle"]
    /\ dchild = [t \in Threads |-> 0]
    /\ snap = [t \in Threads |-> NoDoc]
    /\ lock = 0
    /\ outcome = [c \in 1..Len(childStat) |-> "none"]

\* File.__init__ with lstat succeeding: the document is built under the lock,
\* unless get_size_bin raises.
DocConstruct ==
    /\ dstate = "new"
    /\ IF get_size_bin(rootStat.size) = IndexError
       THEN dstate' = "raised" /\ doc' = doc
       ELSE dstate' = "built" /\ doc' = DocNew(rootStat)
    /\ UNCHANGED <<rootStat, childStat, todo, dpc, dchild, snap, lock, outcome>>
    /\ UNCHANGED <<queueVars, pipeVars, callVars, lockVars, daemonVars>>

\* File.__init__ with lstat failing (FileNotFoundError / PermissionError): a
\* warning, and super().__init__ is never called.
DocConstructMissing ==
    /\ dstate = "new"
    /\ dstate' = "skipped"
    /\ UNCHANGED <<doc, rootStat, childStat, todo, dpc, dchild, snap, lock, outcome>>
    /\ UNCHANGED <<queueVars, pipeVars, callVars, lockVars, daemonVars>>

\* A thread calls folder.incorporate_child(path) for a child not yet handled.
IncCall(t, c) ==
    /\ dstate = "built" /\ dpc[t] = "idle" /\ c \in todo
    /\ todo' = todo \ {c}
    /\ dpc' = [dpc EXCEPT ![t] = "lstat"]
    /\ dchild' = [dchild EXCEPT ![t] = c]
    /\ UNCHANGED <<dstate, doc, rootStat, childStat, snap, lock, outcome>>
    /\ UNCHANGED <<queueVars, pipeVars, callVars, lockVars, daemonVars>>

\* os.lstat(path) succeeds.
IncLstatOk(t) ==
    /\ dpc[t] = "lstat"
    /\ dpc' = [dpc EXCEPT ![t] = "lock"]
    /\ UNCHANGED <<dstate, doc, rootStat, childStat, todo, dchild, snap, lock, outcome>>
    /\ UNCHANGED <<queueVars, pipeVars, callVars, lockVars, daemonVars>>

\* os.lstat(path) fails with FileNotFoundError / PermissionError: a warning.
IncLstatMissing(t) ==
    /\ dpc[t] = "lstat"
    /\ dpc' = [dpc EXCEPT ![t] = "idle"]
    /\ outcome' = [outcome EXCEPT ![dchild[t]] = "missing"]
    /\ dchild' = [dchild EXCEPT ![t] = 0]
    /\ UNCHANGED <<dstate, doc, rootStat, childStat, todo, snap, lock>>
    /\ UNCHANGED <<queueVars, pipeVars, callVars, lockVars, daemonVars>>

\* Entering "with self.__lock" and reading the fields the += statements use.
IncAcquire(t) ==
    /\ dpc[t] = "lock"
    /\ LockAvailable(t)
    /\ lock' = t
    /\ snap' = [snap EXCEPT ![t] = doc]
    /\ dpc' = [dpc EXCEPT ![t] = "w1"]
    /\ UNCHANGED <<dstate, doc, rootStat, childStat, todo, dchild, outcome>>
    /\ UNCHANGED <<queueVars, pipeVars, callVars, lockVars, daemonVars>>

\* Lines 174-181: size, count, filetypes are written, then get_size_bin is
\* called; its IndexError leaves the with block (releasing the lock) and the
\* call, with the rest of the document not updated.
IncWrite1(t) ==
    /\ dpc[t] = "w1"
    /\ doc' = IncFirstHalf(doc, snap[t], childStat[dchild[t]])
    /\ IF get_size_bin(childStat[dchild[t]].size) = IndexError
       THEN /\ dpc' = [dpc EXCEPT ![t] = "dead"]
            /\ lock' = IF lock = t THEN 0 ELSE lock
            /\ outcome' = [outcome EXCEPT ![dchild[t]] = "raised"]
            /\ dchild' = [dchild EXCEPT ![t] = 0]
            /\ snap' = [snap EXCEPT ![t] = NoDoc]
       ELSE /\ dpc' = [dpc EXCEPT ![t] = "w2"]
            /\ UNCHANGED <<lock, outcome, dchild, snap>>
    /\ UNCHANGED <<dstate, rootStat, childStat, todo>>
    /\ UNCHANGED <<queueVars, pipeVars, callVars, lockVars, daemonVars>>

\* Lines 182-202 and the end of the with block.
IncWrite2(t) ==
    /\ dpc[t] = "w2"
    /\ doc' = IncSecondHalf(doc, snap[t], childStat[dchild[t]])
    /\ lock' = IF lock = t THEN 0 ELSE lock
    /\ outcome' = [outcome EXCEPT ![dchild[t]] = "ok"]
    /\ dpc' = [dpc EXCEPT ![t] = "idle"]
    /\ dchild' = [dchild EXCEPT ![t] = 0]
    /\ snap' = [snap EXCEPT ![t] = NoDoc]
    /\ UNCHANGED <<dstate, rootStat, childStat, todo>>
    /\ UNCHANGED <<queueVars, pipeVars, callVars, lockVars, daemonVars>>

DocNext ==
    \/ DocConstruct
    \/ DocConstructMissing
    \/ \E t \in Threads : \E c \in Children : IncCall(t, c)
    \/ \E t \in Threads : IncLstatOk(t)
    \/ \E t \in Threads : IncLstatMissing(t)
    \/ \E t \in Threads : IncAcquire(t)
    \/ \E t \in Threads : IncWrite1(t)
    \/ \E t \in Threads : IncWrite2(t)

\* ---- File.__lock in the Stage-A processes ----

\* The Stage-A processes and the absorb threads of each.
LockProcs == 2
LockThreads == 2

LThreads == (1..LockProcs) \X (1..LockThreads)

NoOwner == <<0, 0>>

\* File.__lock is one multiprocessing RLock made when models.py is imported
\* (line 54), an attribute of the class.  Pool processes made by fork inherit
\* the parent's lock object (0); processes made by spawn or forkserver import
\* the module again and make a lock of their own (the process's number).
LockOf(p) == IF startMethod = "fork" THEN 0 ELSE p

LockObjects == {LockOf(p) : p \in 1..LockProcs}

\* The document an absorb thread updates: the folder of its process's
\* current task (scanner.worker puts (folder, path) for that folder only).
DocumentOf(x) == x[1]

LockIdle == startMethod = "none" /\ rlock = <<>> /\ lthread = <<>>

InitLockVars ==
    /\ startMethod \in {"fork", "spawn"}
    /\ rlock = [k \in LockObjects |-> NoOwner]
    /\ lthread = [x \in LThreads |-> "idle"]

\* threadworker calls folder.incorporate_child(path), lstat succeeds and the
\* thread reaches "with self.__lock".
LockCall(x) ==
    /\ lthread[x] = "idle"
    /\ lthread' = [lthread EXCEPT ![x] = "acquire"]
    /\ UNCHANGED <<startMethod, rlock>>
    /\ UNCHANGED <<docVars, queueVars, pipeVars, callVars, daemonVars>>

\* The with block is entered once no other thread holds the lock object.
LockEnter(x) ==
    /\ lthread[x] = "acquire"
    /\ rlock[LockOf(x[1])] = NoOwner
    /\ rlock' = [rlock EXCEPT ![LockOf(x[1])] = x]
    /\ lthread' = [lthread EXCEPT ![x] = "held"]
    /\ UNCHANGED startMethod
    /\ UNCHANGED <<docVars, queueVars, pipeVars, callVars, daemonVars>>

\* The end of the with block (lines 174-202 done).
LockLeave(x) ==
    /\ lthread[x] = "held"
    /\ rlock' = [rlock EXCEPT ![LockOf(x[1])] = NoOwner]
    /\ lthread' = [lthread EXCEPT ![x] = "idle"]
    /\ UNCHANGED startMethod
    /\ UNCHANGED <<docVars, queueVars, pipeVars, callVars, daemonVars>>

(***************************************************************************)
(* The daemon loop: daemon.py.                                             *)
(***************************************************************************)
\* Bounds of SpecDaemon.
MaxThreshold == 2
MaxPasses == 2

\* Paths are the sequences of their components as split at "/": "/gws/a" is
\* <<"", "gws", "a">>, "/gws/b/" is <<"", "gws", "b", "">>.
GwsA == <<"", "gws", "a">>
GwsB == <<"", "gws", "b">>
GwsC == <<"", "gws", "c">>

\* req["location"].startswith("/").
StartsWithSlash(loc) == Len(loc) >= 2 /\ Head(loc) = ""

\* The number of "/" a location starts with.
RECURSIVE LeadingSlashes(_)
LeadingSlashes(loc) ==
    IF Len(loc) >= 2 /\ Head(loc) = "" THEN 1 + LeadingSlashes(Tail(loc)) ELSE 0

\* str(pathlib.PurePath(location)) for a location that starts with "/":
\* repeated and trailing slashes and "." components go, and a root of exactly
\* two slashes is kept as it is.
Sanitize(loc) ==
    LET parts == SelectSeq(loc, LAMBDA c : c # "" /\ c # ".")
        root  == IF LeadingSlashes(loc) = 2 THEN <<"", "">> ELSE <<"">>
    IN  IF parts = <<>> THEN root \o <<"">> ELSE root \o parts

\* x in services.
InList(x, services) == \E i \in 1..Len(services) : services[i] = x

\* get_gws_list lines 172-182 for one service: the requirements with status
\* 50 and a location starting with "/" are sanitized and appended unless
\* already in the list or in never_scan.
RECURSIVE AddRequirements(_, _, _)
AddRequirements(services, reqs, never_scan) ==
    IF reqs = <<>> THEN services
    ELSE LET req       == Head(reqs)
             sanitized == Sanitize(req.location)
         IN  AddRequirements(
                 IF /\ req.status = 50 /\ StartsWithSlash(req.location)
                    /\ ~InList(sanitized, services) /\ sanitized \notin never_scan
                 THEN Append(services, sanitized)
                 ELSE services,
                 Tail(reqs), never_scan)

\* get_gws_list lines 169-182: the services of category 1, last one first.
RECURSIVE AddServices(_, _, _)
AddServices(services, projects_services, never_scan) ==
    IF projects_services = <<>> THEN services
    ELSE LET service == projects_services[Len(projects_services)]
             rest    == SubSeq(projects_services, 1, Len(projects_services) - 1)
         IN  AddServices(
                 IF service.category = 1
                 THEN AddRequirements(services, service.requirements, never_scan)
                 ELSE services,
                 rest, never_scan)

\* What the projects portal answers.
PortalNone == <<>>
PortalOne ==
    << [category |-> 1,
        requirements |-> << [status |-> 50, location |-> <<"", "gws", "b", "">>] >>] >>
PortalMixed ==
    << [category |-> 1,
        requirements |-> << [status |-> 50, location |-> <<"", "gws", "", "c">>],
                            [status |-> 40, location |-> <<"", "gws", "d">>] >>],
       [category |-> 2,
        requirements |-> << [status |-> 50, location |-> <<"", "gws", "e">>] >>],
       [category |-> 1,
        requirements |-> << [status |-> 50, location |-> <<"gws", "f">>],
                            [status |-> 50, location |-> <<"", "gws", "b">>],
                            [status |-> 50, location |-> <<"", "gws", ".", "a">>] >>] >>

DaemonConfigs ==
    [ fail_threshold : 0..MaxThreshold,
      extra_to_scan : {<<>>, <<GwsA>>, <<GwsA, GwsC>>},
      never_scan : {{}, {GwsB}},
      projects_services : {PortalNone, PortalOne, PortalMixed},
      run_forever : BOOLEAN ]

DaemonIdle ==
    /\ daemonCfg = <<>> /\ daemonPc = "none" /\ fail_count = 0
    /\ extra_to_scan = <<>> /\ listed = <<>> /\ passes = 0
    /\ lastScan = "none" /\ abortsSince = 0

\* main lines 58-62, the configuration as ScannerConfig loaded it.
InitDaemonVars ==
    /\ daemonCfg \in DaemonConfigs
    /\ daemonPc = "list" /\ fail_count = 0
    /\ extra_to_scan = daemonCfg.extra_to_scan
    /\ listed = <<>> /\ passes = 0
    /\ lastScan = "none" /\ abortsSince = 0

\* main's toscan: the list get_gws_list returned, which is the list object of
\* the configuration (line 168 binds services to it, line 183 returns it).
toscan == extra_to_scan

\* Lines 65-67 with get_gws_list returning: the portal paths are appended to
\* the configuration's list.
DaemonList ==
    /\ daemonPc = "list"
    /\ extra_to_scan' = AddServices(extra_to_scan, daemonCfg.projects_services,
                                    daemonCfg.never_scan)
    /\ listed' = extra_to_scan'
    /\ daemonPc' = "scan"
    /\ UNCHANGED <<daemonCfg, fail_count, passes, lastScan, abortsSince>>
    /\ UNCHANGED <<docVars, queueVars, pipeVars, callVars, lockVars>>

\* Lines 67-68: the portal cannot be reached (httpx.RequestError), break.
DaemonListFails ==
    /\ daemonPc = "list"
    /\ daemonPc' = "stopped"
    /\ UNCHANGED <<daemonCfg, fail_count, extra_to_scan, listed, passes, lastScan,
                   abortsSince>>
    /\ UNCHANGED <<docVars, queueVars, pipeVars, callVars, lockVars>>

\* Lines 73-84 and 98-103: toscan.pop(), and the path is not scanned
\* (should_scan is false, the path does not exist, or PermissionError).
DaemonSkip ==
    /\ daemonPc = "scan" /\ toscan # <<>>
    /\ extra_to_scan' = SubSeq(toscan, 1, Len(toscan) - 1)
    /\ lastScan' = "skip"
    /\ UNCHANGED <<daemonCfg, daemonPc, fail_count, listed, passes, abortsSince>>
    /\ UNCHANGED <<docVars, queueVars, pipeVars, callVars, lockVars>>

\* Lines 105-108 and 124-132: scan_single_gws returns.
DaemonScanOk ==
    /\ daemonPc = "scan" /\ toscan # <<>>
    /\ extra_to_scan' = SubSeq(toscan, 1, Len(toscan) - 1)
    /\ fail_count' = 0
    /\ lastScan' = "ok" /\ abortsSince' = 0
    /\ UNCHANGED <<daemonCfg, daemonPc, listed, passes>>
    /\ UNCHANGED <<docVars, queueVars, pipeVars, callVars, lockVars>>

\* Mutant of DaemonScanAbort: the threshold test is > in place of >=.
DaemonScanAbortStrict ==
    /\ daemonPc = "scan" /\ toscan # <<>>
    /\ extra_to_scan' = SubSeq(toscan, 1, Len(toscan) - 1)
    /\ IF fail_count > daemonCfg.fail_threshold
       THEN daemonPc' = "fatal" /\ fail_count' = fail_count
       ELSE daemonPc' = daemonPc /\ fail_count' = fail_count + 1
    /\ lastScan' = "abort" /\ abortsSince' = abortsSince + 1
    /\ UNCHANGED <<daemonCfg, listed, passes>>
    /\ UNCHANGED <<docVars, queueVars, pipeVars, callVars, lockVars>>

\* Lines 105-123: scan_single_gws raises AbortError; AbortScanError once
\* fail_count has reached fail_threshold, else fail_count += 1.
DaemonScanAbort ==
    /\ daemonPc = "scan" /\ toscan # <<>>
    /\ extra_to_scan' = SubSeq(toscan, 1, Len(toscan) - 1)
    /\ IF fail_count >= daemonCfg.fail_threshold
       THEN daemonPc' = "fatal" /\ fail_count' = fail_count
       ELSE daemonPc' = daemonPc /\ fail_count' = fail_count + 1
    /\ lastScan' = "abort" /\ abortsSince' = abortsSince + 1
    /\ UNCHANGED <<daemonCfg, listed, passes>>
    /\ UNCHANGED <<docVars, queueVars, pipeVars, callVars, lockVars>>

\* Lines 105-109: scan_single_gws raises another exception, which main does
\* not catch.
DaemonScanRaises ==
    /\ daemonPc = "scan" /\ toscan # <<>>
    /\ extra_to_scan' = SubSeq(toscan, 1, Len(toscan) - 1)
    /\ daemonPc' = "crashed"
    /\ lastScan' = "error"
    /\ UNCHANGED <<daemonCfg, fail_count, listed, passes, abortsSince>>
    /\ UNCHANGED <<docVars, queueVars, pipeVars, callVars, lockVars>>

\* Lines 72 and 134-151: toscan is empty; break unless --run-forever, else
\* the next pass.
DaemonPassEnd ==
    /\ daemonPc = "scan" /\ toscan = <<>>
    /\ passes < MaxPasses
    /\ passes' = passes + 1
    /\ daemonPc' = IF daemonCfg.run_forever THEN "list" ELSE "stopped"
    /\ UNCHANGED <<daemonCfg, fail_count, extra_to_scan, listed, lastScan, abortsSince>>
    /\ UNCHANGED <<docVars, queueVars, pipeVars, callVars, lockVars>>

(***************************************************************************)
(* Joinable queues: util.py.                                               *)
(***************************************************************************)
\* Bounds of SpecQueue.
QueueCap == 2
QueueConsumers == 2

Queues == {"scan", "absorb", "elastic"}

NoLog == [absent |-> TRUE]

\* Which queues are built as cancellable ones: ScanQueueWorker.queue is a
\* CancellableJoinableQueue, the absorb queue of scanner.worker a
\* CancellableQueue, and ElasticQueueWorker.queue a plain mp.JoinableQueue.
Cancellable(q) == q \in {"scan", "absorb"}

\* The condition under which join() returns: the overridden joins loop
\* "while unfinished: if abort_event.is_set(): return; wait(5)", the plain
\* JoinableQueue.join waits for the unfinished-task count to be zero.
JoinReturns(cancellable, unf, ab) == unf = 0 \/ (cancellable /\ ab)

QueueIdle ==
    /\ qitems = <<>> /\ qunf = <<>> /\ qheld = <<>> /\ qjoin = <<>>
    /\ qabort = FALSE /\ qjoinlog = <<>>

InitQueueVars ==
    /\ qitems = [q \in Queues |-> 0]
    /\ qunf = [q \in Queues |-> 0]
    /\ qheld = [q \in Queues |-> 0]
    /\ qjoin = [q \in Queues |-> "no"]
    /\ qabort = FALSE
    /\ qjoinlog = [q \in Queues |-> NoLog]

\* put(): blocks while the queue holds maxsize items.
QPut(q) ==
    /\ qitems[q] < QueueCap
    /\ qitems' = [qitems EXCEPT ![q] = @ + 1]
    /\ qunf' = [qunf EXCEPT ![q] = @ + 1]
    /\ UNCHANGED <<qheld, qjoin, qabort, qjoinlog>>
    /\ UNCHANGED <<docVars, pipeVars, callVars, lockVars, daemonVars>>

\* get() by a consumer.
QGet(q) ==
    /\ qitems[q] > 0 /\ qheld[q] < QueueConsumers
    /\ qitems' = [qitems EXCEPT ![q] = @ - 1]
    /\ qheld' = [qheld EXCEPT ![q] = @ + 1]
    /\ UNCHANGED <<qunf, qjoin, qabort, qjoinlog>>
    /\ UNCHANGED <<docVars, pipeVars, callVars, lockVars, daemonVars>>

\* task_done() by a consumer.
QTaskDone(q) ==
    /\ qheld[q] > 0
    /\ qheld' = [qheld EXCEPT ![q] = @ - 1]
    /\ qunf' = [qunf EXCEPT ![q] = @ - 1]
    /\ UNCHANGED <<qitems, qjoin, qabort, qjoinlog>>
    /\ UNCHANGED <<docVars, pipeVars, callVars, lockVars, daemonVars>>

\* abort.set()
QSetAbort ==
    /\ ~qabort
    /\ qabort' = TRUE
    /\ UNCHANGED <<qitems, qunf, qheld, qjoin, qjoinlog>>
    /\ UNCHANGED <<docVars, pipeVars, callVars, lockVars, daemonVars>>

\* join() is called.
QJoinCall(q) ==
    /\ qjoin[q] = "no"
    /\ qjoin' = [qjoin EXCEPT ![q] = "waiting"]
    /\ UNCHANGED <<qitems, qunf, qheld, qabort, qjoinlog>>
    /\ UNCHANGED <<docVars, pipeVars, callVars, lockVars, daemonVars>>

\* join() returns.
QJoinReturn(q) ==
    /\ qjoin[q] = "waiting"
    /\ JoinReturns(Cancellable(q), qunf[q], qabort)
    /\ qjoin' = [qjoin EXCEPT ![q] = "returned"]
    /\ qjoinlog' = [qjoinlog EXCEPT ![q] = [unf |-> qunf[q], abort |-> qabort]]
    /\ UNCHANGED <<qitems, qunf, qheld, qabort>>
    /\ UNCHANGED <<docVars, pipeVars, callVars, lockVars, daemonVars>>

QueueNext ==
    \/ \E q \in Queues : QPut(q)
    \/ \E q \in Queues : QGet(q)
    \/ \E q \in Queues : QTaskDone(q)
    \/ QSetAbort
    \/ \E q \in Queues : QJoinCall(q)
    \/ \E q \in Queues : QJoinReturn(q)

(***************************************************************************)
(* Scan pipeline: scan_single.py, scanner.py, util.py, elastic.py.         *)
(***************************************************************************)
\* Bound of Spec: the number of scan_single_gws calls of a run of CfgSeq.
MaxScans == 2

\* max(1000, queue_length_scale_factor) of elastic.worker.
SinkMinBatch == 1000

Max(a, b) == IF a >= b THEN a ELSE b

\* A path below the scan root is the sequence of its component names
\* (numbers, so that a listing has an order); <<>> is the scan root.
IsChild(p, d) == Len(p) = Len(d) + 1 /\ SubSeq(p, 1, Len(d)) = d

IsBelow(p, d) == Len(p) > Len(d) /\ SubSeq(p, 1, Len(d)) = d

RECURSIVE SortPaths(_)
SortPaths(S) ==
    IF S = {} THEN <<>>
    ELSE LET m == CHOOSE x \in S : \A y \in S : x[Len(x)] <= y[Len(y)]
         IN  <<m>> \o SortPaths(S \ {m})

SubDirs(tree, d) == SortPaths({p \in tree.dirs : IsChild(p, d)})

FilesIn(tree, d) == SortPaths({p \in tree.files : IsChild(p, d)})

RECURSIVE Flatten(_)
Flatten(ss) == IF ss = <<>> THEN <<>> ELSE Head(ss) \o Flatten(Tail(ss))

\* Trees the volumes of Spec hold.  TreeSeq: the root with a file (3) and
\* a subdirectory (1) holding a file (4).  TreeWide: the same with a second,
\* empty subdirectory (2) and a second file (5) in the root.
TreeSeq == [dirs |-> {<<>>, <<1>>}, files |-> {<<3>>, <<1, 4>>}]
TreeWide == [dirs |-> {<<>>, <<1>>, <<2>>}, files |-> {<<3>>, <<5>>, <<1, 4>>}]

\* Scan policy of the runs (gws_config): directory 1 walked per item, nothing
\* aggregated by path or name, scan_depth beyond the tree.
PolicyMain ==
    [ full_item_walk_dirs |-> {<<1>>}, aggregate_subdir_paths |-> {},
      aggregate_subdir_names |-> {}, scan_depth |-> 10, root_name |-> 9 ]

\* Scan policy with scan_depth 1: the volume's root is aggregated, so that its
\* one task absorbs every inode below it.
PolicyShallow == [PolicyMain EXCEPT !.scan_depth = 1]

\* The runs of Spec, with queue_length_scale_factor 1 except in CfgAgg.
\*   CfgSeq:    up to MaxScans scans of the volumes, one after the other, by
\*              one Stage-A process with one absorb thread;
\*   CfgWide:   one scan of the wider tree by one Stage-A process with two
\*              absorb threads;
\*   CfgPar:    one scan by two Stage-A processes;
\*   CfgVanish: one scan during which the directories may disappear between
\*              the Walker's visit and the lstat in Stage A;
\*   CfgSinkFail: one scan during which a bulk write of the sink may fail.
\*   CfgAgg:    one scan of an aggregated root with queue_length_scale_factor
\*              2 by one Stage-A process with one absorb thread.
\*   CfgRaise:  one scan during which the creation of the lifecycle document
\*              or the Walker may raise an exception.
\* vanish is the set of directories whose lstat in Stage A may fail, sinkfail
\* says whether the backend may refuse a bulk write of the sink, raises
\* whether Volume.save or queuescan may raise, and quiet is
\* the set of document counts after which the producers stay silent for the
\* sink's timeout ({}: they may after any).
CfgSeq ==
    [ procs |-> 1, threads |-> 1, scale |-> 1, tree |-> TreeSeq,
      policy |-> PolicyMain, scans |-> MaxScans, vanish |-> {}, sinkfail |-> FALSE, raises |-> FALSE, quiet |-> {} ]
CfgWide ==
    [ procs |-> 1, threads |-> 2, scale |-> 1, tree |-> TreeWide,
      policy |-> PolicyMain, scans |-> 1, vanish |-> {}, sinkfail |-> FALSE, raises |-> FALSE, quiet |-> {} ]
CfgPar ==
    [ procs |-> 2, threads |-> 1, scale |-> 1, tree |-> TreeSeq,
      policy |-> PolicyMain, scans |-> 1, vanish |-> {}, sinkfail |-> FALSE, raises |-> FALSE, quiet |-> {} ]
CfgVanish ==
    [ procs |-> 1, threads |-> 1, scale |-> 1, tree |-> TreeSeq,
      policy |-> PolicyMain, scans |-> 1, vanish |-> {<<>>, <<1>>}, sinkfail |-> FALSE, raises |-> FALSE, quiet |-> {} ]
CfgSinkFail ==
    [ procs |-> 1, threads |-> 1, scale |-> 1, tree |-> TreeSeq,
      policy |-> PolicyMain, scans |-> 1, vanish |-> {}, sinkfail |-> TRUE, raises |-> FALSE, quiet |-> {} ]
CfgAgg ==
    [ procs |-> 1, threads |-> 1, scale |-> 2, tree |-> TreeSeq,
      policy |-> PolicyShallow, scans |-> 1, vanish |-> {}, sinkfail |-> FALSE, raises |-> FALSE, quiet |-> {} ]
CfgRaise ==
    [ procs |-> 1, threads |-> 1, scale |-> 1, tree |-> TreeSeq,
      policy |-> PolicyMain, scans |-> 1, vanish |-> {}, sinkfail |-> FALSE, raises |-> TRUE, quiet |-> {} ]
Configs == {CfgSeq, CfgWide, CfgPar, CfgVanish, CfgSinkFail, CfgAgg, CfgRaise}

\* queuescan line 30: len(dirpath.removeprefix(path).strip("/").split("/")).
\* "".split("/") is [""], so the root gets 1 like its immediate subdirectories.
Depth(d) == IF Len(d) = 0 THEN 1 ELSE Len(d)

BaseName(policy, d) == IF Len(d) = 0 THEN policy.root_name ELSE d[Len(d)]

\* queuescan lines 32-40.
WalkItems(policy, d) == d \in policy.full_item_walk_dirs

AggregateSubdirs(policy, d) ==
    \/ Depth(d) >= policy.scan_depth
    \/ d \in policy.aggregate_subdir_paths
    \/ BaseName(policy, d) \in policy.aggregate_subdir_names

\* Mutant of TaskOf: the tuple says aggregate_subdirs whatever the Walker
\* decided for its own descent.
TaskOfAlwaysAggregate(tree, policy, d) ==
    [ dir |-> d, dirnames |-> SubDirs(tree, d), files |-> FilesIn(tree, d),
      walk_items |-> WalkItems(policy, d),
      aggregate_subdirs |-> TRUE ]

\* The tuple queuescan puts for directory d (lines 42-57).
TaskOf(tree, policy, d) ==
    [ dir |-> d, dirnames |-> SubDirs(tree, d), files |-> FilesIn(tree, d),
      walk_items |-> WalkItems(policy, d),
      aggregate_subdirs |-> AggregateSubdirs(policy, d) ]

\* os.walk top-down: the directory, then each subdirectory left in dirnames;
\* queuescan clears dirnames of a directory it aggregates.
RECURSIVE WalkFrom(_, _, _)
WalkFrom(tree, policy, d) ==
    <<TaskOf(tree, policy, d)>> \o
        (IF AggregateSubdirs(policy, d) THEN <<>>
         ELSE Flatten([i \in 1..Len(SubDirs(tree, d)) |->
                          WalkFrom(tree, policy, SubDirs(tree, d)[i])]))

\* os.walk of a pruned subdirectory inside Stage A (scanner.worker lines
\* 113-121): the directory itself, its files, then its subdirectories' walks.
RECURSIVE InnerWalk(_, _)
InnerWalk(tree, d) ==
    <<d>> \o FilesIn(tree, d) \o
        Flatten([i \in 1..Len(SubDirs(tree, d)) |-> InnerWalk(tree, SubDirs(tree, d)[i])])

\* Mutant of WorkOf: the files are absorbed whatever walk_items says.
WorkOfAlwaysAbsorb(tree, task) ==
    [i \in 1..Len(task.files) |-> [op |-> "absorb", path |-> task.files[i]]]
    \o (IF task.aggregate_subdirs
        THEN LET inner == Flatten([i \in 1..Len(task.dirnames) |->
                                      InnerWalk(tree, task.dirnames[i])])
             IN  [i \in 1..Len(inner) |-> [op |-> "absorb", path |-> inner[i]]]
        ELSE <<>>)

\* What scanner.worker does for a task between constructing the folder and
\* joining the absorb queue (lines 99-121), in order: a document put on the
\* Stage-C queue per file (walk_items), or an absorption per file; then an
\* absorption per inode below each pruned subdirectory.
WorkOf(tree, task) ==
    [i \in 1..Len(task.files) |->
        [op |-> IF task.walk_items THEN "emit" ELSE "absorb", path |-> task.files[i]]]
    \o (IF task.aggregate_subdirs
        THEN LET inner == Flatten([i \in 1..Len(task.dirnames) |->
                                      InnerWalk(tree, task.dirnames[i])])
             IN  [i \in 1..Len(inner) |-> [op |-> "absorb", path |-> inner[i]]]
        ELSE <<>>)

NoTask == [absent |-> TRUE]
NoPath == <<0>>

Workers == 1..cfg.procs
AbsThreads == 1..cfg.threads

\* Queue capacities: ScanQueueWorker.__init__, ElasticQueueWorker.__init__ and
\* scanner.worker.
ScanQCap == cfg.procs * cfg.scale
ElasticQCap == cfg.scale
AbsorbQCap == cfg.threads * cfg.scale

\* The categories of the bucket maps the roll-up queries read.
Categories == {"filetypes", "users", "heat_bins"}

\* The bucket of each category an inode falls in (detect_filetype,
\* username_from_uid, get_time_bin): directories and files differ in type and
\* heat, owners alternate with the name.
BucketOf(tree, cat, p) ==
    IF cat = "filetypes" THEN (IF p \in tree.dirs THEN "__directory__" ELSE "text__plain")
    ELSE IF cat = "users"
         THEN (IF p = <<>> THEN "root" ELSE IF p[Len(p)] % 2 = 1 THEN "alice" ELSE "bob")
    ELSE (IF p \in tree.dirs THEN "1y-2y" ELSE "1h-1d")

\* The count of a bucket-map entry incremented (the size is not followed in
\* the pipeline).
BumpCount(m, k) ==
    IF k \in DOMAIN m THEN [m EXCEPT ![k] = @ + 1] ELSE m @@ (k :> 1)

\* A directory document as put on the Stage-C queue (folder.to_dict): the
\* scan, the path, the inode count, the bucket maps, and for the analysis
\* only: the number of absorptions of it still queued or running when it was
\* put (pending), the number whose lstat failed with a warning (missed) and
\* the number that raised another OSError (failed).
DocOf(f, pend) ==
    [scan |-> f.scan, path |-> f.path, count |-> f.count,
     includes_children |-> f.includes_children, cats |-> f.cats,
     pending |-> pend, missed |-> f.missed, failed |-> f.failed]

\* models.File(path, start_timestamp, scan_id) in the pipeline, lstat
\* succeeding.
FileNew(scanid, p) ==
    [scan |-> scanid, path |-> p, count |-> 1, includes_children |-> FALSE,
     cats |-> [c \in Categories |-> BumpCount(<<>>, BucketOf(cfg.tree, c, p))],
     missed |-> 0, failed |-> 0, broken |-> FALSE]

\* models.File(...) with lstat failing (models.py lines 96-97): a warning, and
\* esd.Document.__init__ is never called, so the object has none of the
\* document's state.
FileBroken(scanid, p) == [FileNew(scanid, p) EXCEPT !.count = 0, !.broken = TRUE]

\* incorporate_child(path) on folder f with lstat succeeding.
Incorporated(f, p) ==
    [f EXCEPT !.count = @ + 1, !.includes_children = TRUE,
              !.cats = [c \in Categories |-> BumpCount(f.cats[c], BucketOf(cfg.tree, c, p))]]

\* A date field that has not been assigned (esd.Date() with no value reads as
\* None and is left out by to_dict).
NoTime == 0

\* dt.datetime.now() as read by Volume.new and by add_endofscan of scan id:
\* the scans of one daemon run one after the other, so the readings are the
\* ticks of a clock that advances at each of them.
StartTime(id) == 2 * id - 1
EndTime(id) == 2 * id

\* Volume.new; agg records, for the analysis only, how the aggregation step
\* of the scan went ("none" until it has run).
VolumeNew(p) ==
    [path |-> p, status |-> "in_progress", count |-> 0, agg |-> "none",
     start_timestamp |-> StartTime(Len(vol) + 1), end_timestamp |-> NoTime]

VolPaths == {"/gws/a", "/gws/b"}

PipeIdle ==
    /\ cfg = NoTask /\ vol = <<>> /\ dataIndex = {} /\ gran = {} /\ cpc = "idle"
    /\ cur = 0 /\ walkLeft = <<>> /\ oldIds = <<>> /\ abort = FALSE
    /\ shutdownEv = FALSE /\ scanQ = <<>> /\ scanUnf = 0 /\ wpc = <<>>
    /\ wtask = <<>> /\ wleft = <<>> /\ folder = <<>> /\ tq = <<>> /\ tunf = <<>>
    /\ tpc = <<>> /\ titem = <<>> /\ elasticQ = <<>> /\ eUnf = 0 /\ staging = <<>>
    /\ deleted = {} /\ lastResult = "none" /\ sinkDied = -1
    /\ sinkShut = FALSE /\ sinkPc = "run" /\ sinkFed = 0

InitPipeVars ==
    /\ cfg \in Configs
    /\ vol = <<>> /\ dataIndex = {} /\ gran = {} /\ cpc = "idle" /\ cur = 0
    /\ walkLeft = <<>> /\ oldIds = <<>> /\ abort = FALSE /\ shutdownEv = FALSE
    /\ scanQ = <<>> /\ scanUnf = 0
    /\ wpc = [w \in Workers |-> "exited"]
    /\ wtask = [w \in Workers |-> NoTask]
    /\ wleft = [w \in Workers |-> <<>>]
    /\ folder = [w \in Workers |-> NoDoc]
    /\ tq = [w \in Workers |-> <<>>]
    /\ tunf = [w \in Workers |-> 0]
    /\ tpc = [w \in Workers |-> [t \in AbsThreads |-> "exited"]]
    /\ titem = [w \in Workers |-> [t \in AbsThreads |-> NoPath]]
    /\ elasticQ = <<>> /\ eUnf = 0 /\ staging = <<>>
    /\ deleted = {} /\ lastResult = "none" /\ sinkDied = -1
    /\ sinkShut = FALSE /\ sinkPc = "run" /\ sinkFed = 0

\* TreeDeep: /t/sub/x with a file in sub and a file in x (sub is 1, x is 2).
TreeDeep == [dirs |-> {<<>>, <<1>>, <<1, 2>>}, files |-> {<<1, 3>>, <<1, 2, 4>>}]

\* The gws_config values of the Walker's runs: every choice of aggregation
\* by path (the root, /1), by name (the root's name 9, 1, 2) and of
\* scan_depth (10 is beyond every tree), with /1 walked per item or not.
WalkPolicies ==
    { [ full_item_walk_dirs |-> fw, aggregate_subdir_paths |-> ps,
        aggregate_subdir_names |-> ns, scan_depth |-> k, root_name |-> 9 ] :
          fw \in {{}, {<<1>>}}, ps \in SUBSET {<<>>, <<1>>}, ns \in SUBSET {1, 2, 9},
          k \in {1, 2, 10} }

WalkConfigs ==
    { [ procs |-> 1, threads |-> 1, scale |-> 4, tree |-> tr, policy |-> po,
        scans |-> 1, vanish |-> {}, sinkfail |-> FALSE, raises |-> FALSE, quiet |-> {} ] :
          tr \in {TreeSeq, TreeWide, TreeDeep}, po \in WalkPolicies }

InitWalkVars ==
    /\ cfg \in WalkConfigs
    /\ vol = <<>> /\ dataIndex = {} /\ gran = {} /\ cpc = "idle" /\ cur = 0
    /\ walkLeft = <<>> /\ oldIds = <<>> /\ abort = FALSE /\ shutdownEv = FALSE
    /\ scanQ = <<>> /\ scanUnf = 0
    /\ wpc = [w \in Workers |-> "exited"]
    /\ wtask = [w \in Workers |-> NoTask]
    /\ wleft = [w \in Workers |-> <<>>]
    /\ folder = [w \in Workers |-> NoDoc]
    /\ tq = [w \in Workers |-> <<>>]
    /\ tunf = [w \in Workers |-> 0]
    /\ tpc = [w \in Workers |-> [t \in AbsThreads |-> "exited"]]
    /\ titem = [w \in Workers |-> [t \in AbsThreads |-> NoPath]]
    /\ elasticQ = <<>> /\ eUnf = 0 /\ staging = <<>>
    /\ deleted = {} /\ lastResult = "none" /\ sinkDied = -1
    /\ sinkShut = FALSE /\ sinkPc = "run" /\ sinkFed = 0

\* queries.scan_ids(path, volume_index): the ids of the lifecycle documents of
\* the same path.
ScanIdsOf(p) ==
    LET ids == {i \in 1..Len(vol) : vol[i].path = p}
    IN  SortPaths({<<i>> : i \in ids})

\* scan_single_gws lines 72-75: old_scan_ids.remove(volumestats.meta.id),
\* which removes the first occurrence and raises ValueError (passed over) when
\* there is none.
RECURSIVE RemoveId(_, _)
RemoveId(ids, id) ==
    IF ids = <<>> THEN <<>>
    ELSE IF Head(ids) = <<id>> THEN Tail(ids)
    ELSE <<Head(ids)>> \o RemoveId(Tail(ids), id)

\* scan_single_gws line 78: the scans the supersession loop acts on.
NeedsSupersede(status) == status \in {"complete", "in_progress"}

\* Mutant of SupersedeStatus: the two branches swapped.
SupersedeStatusSwapped(status) ==
    IF status = "complete" THEN "failed"
    ELSE IF status = "in_progress" THEN "removed"
    ELSE status

\* scan_single_gws lines 88-91.
SupersedeStatus(status) ==
    IF status = "complete" THEN "removed"
    ELSE IF status = "in_progress" THEN "failed"
    ELSE status

RECURSIVE SumCount(_)
SumCount(S) ==
    IF S = {} THEN 0
    ELSE LET x == CHOOSE y \in S : TRUE IN x.count + SumCount(S \ {x})

\* queries.count_size: the sum of count over the documents of the scan that
\* are in the data index.
CountOfScan(id) == SumCount({d \in dataIndex : d.scan = id})

\* The sum of the counts of bucket b of category c over the documents S.
RECURSIVE BucketSum(_, _, _)
BucketSum(S, c, b) ==
    IF S = {} THEN 0
    ELSE LET x == CHOOSE y \in S : TRUE
         IN  (IF b \in DOMAIN x.cats[c] THEN x.cats[c][b] ELSE 0)
                 + BucketSum(S \ {x}, c, b)

\* The buckets of category c the documents S have (the keys of the index
\* mapping the queries iterate over).
BucketsOf(S, c) == UNION {DOMAIN d.cats[c] : d \in S}

\* aggregate_filetypes, aggregate_users, aggregate_heat: one record for each
\* bucket whose count, summed over the documents of the scan that are in the
\* data index, is above zero; the timestamps are read from the lifecycle
\* document as it is when the records are built.
GranularRecords(id) ==
    LET S    == {d \in dataIndex : d.scan = id}
        keys == UNION {{<<c, b>> : b \in BucketsOf(dataIndex, c)} : c \in Categories}
    IN  {[scan |-> id, category |-> k[1], identifier |-> k[2],
          count |-> BucketSum(S, k[1], k[2]),
          start_timestamp |-> vol[id].start_timestamp,
          end_timestamp |-> vol[id].end_timestamp] :
            k \in {x \in keys : BucketSum(S, x[1], x[2]) > 0}}

\* ---- Coordinator: scan_single_gws ----

\* Lines 23-30: the abort event, the Stage-A pool with its queue, and the
\* lifecycle document saved as in_progress.
ScanStart(p) ==
    /\ cpc = "idle" /\ Len(vol) < cfg.scans
    /\ lastResult # "error"
    /\ vol' = Append(vol, VolumeNew(p))
    /\ cur' = Len(vol) + 1
    /\ abort' = FALSE /\ shutdownEv' = FALSE
    /\ scanQ' = <<>> /\ scanUnf' = 0
    /\ wpc' = [w \in Workers |-> "get"]
    /\ wtask' = [w \in Workers |-> NoTask]
    /\ wleft' = [w \in Workers |-> <<>>]
    /\ folder' = [w \in Workers |-> NoDoc]
    /\ tq' = [w \in Workers |-> <<>>]
    /\ tunf' = [w \in Workers |-> 0]
    /\ tpc' = [w \in Workers |-> [t \in AbsThreads |-> "get"]]
    /\ titem' = [w \in Workers |-> [t \in AbsThreads |-> NoPath]]
    /\ walkLeft' = WalkFrom(cfg.tree, cfg.policy, <<>>)
    /\ oldIds' = <<>> /\ deleted' = {}
    /\ cpc' = "walk"
    /\ UNCHANGED <<cfg, dataIndex, gran, elasticQ, eUnf, staging, sinkDied, sinkCtl, lastResult>>
    /\ UNCHANGED <<docVars, queueVars, callVars, lockVars, daemonVars>>

\* Lines 25-30 with Volume.new, add_volume_information or save raising (the
\* backend is unreachable): the Stage-A pool has been started by line 25, the
\* exception leaves scan_single_gws, and no lifecycle document is stored.
LifecycleRaises ==
    /\ cpc = "idle" /\ Len(vol) < cfg.scans
    /\ lastResult # "error"
    /\ cfg.raises
    /\ abort' = FALSE /\ shutdownEv' = FALSE
    /\ scanQ' = <<>> /\ scanUnf' = 0
    /\ wpc' = [w \in Workers |-> "get"]
    /\ wtask' = [w \in Workers |-> NoTask]
    /\ wleft' = [w \in Workers |-> <<>>]
    /\ folder' = [w \in Workers |-> NoDoc]
    /\ tq' = [w \in Workers |-> <<>>]
    /\ tunf' = [w \in Workers |-> 0]
    /\ tpc' = [w \in Workers |-> [t \in AbsThreads |-> "get"]]
    /\ titem' = [w \in Workers |-> [t \in AbsThreads |-> NoPath]]
    /\ lastResult' = "error"
    /\ UNCHANGED <<cfg, vol, dataIndex, gran, cpc, cur, walkLeft, oldIds, elasticQ, eUnf,
                   staging, sinkDied, sinkCtl, deleted>>
    /\ UNCHANGED <<docVars, queueVars, callVars, lockVars, daemonVars>>

\* Lines 33-40 with queuescan raising (gws_config at line 26 or the walk):
\* the exception leaves scan_single_gws before line 43.  A put that is
\* waiting for room in the queue does not raise.
WalkerRaises ==
    /\ cpc = "walk"
    /\ cfg.raises
    /\ walkLeft = <<>> \/ Len(scanQ) < ScanQCap
    /\ cpc' = "idle"
    /\ lastResult' = "error"
    /\ UNCHANGED <<cfg, vol, dataIndex, gran, cur, walkLeft, oldIds, abort, shutdownEv,
                   scanQ, scanUnf, wpc, wtask, wleft, folder, tq, tunf, tpc, titem,
                   elasticQ, eUnf, staging, sinkDied, sinkCtl, deleted>>
    /\ UNCHANGED <<docVars, queueVars, callVars, lockVars, daemonVars>>

\* queuescan: queue.put of the next task; blocks while the queue is full.
WalkerPut ==
    /\ cpc = "walk" /\ walkLeft # <<>>
    /\ Len(scanQ) < ScanQCap
    /\ scanQ' = Append(scanQ, Head(walkLeft))
    /\ scanUnf' = scanUnf + 1
    /\ walkLeft' = Tail(walkLeft)
    /\ UNCHANGED <<cfg, vol, dataIndex, gran, cpc, cur, oldIds, abort, shutdownEv,
                   wpc, wtask, wleft, folder, tq, tunf, tpc, titem, elasticQ, eUnf,
                   staging, sinkDied, sinkCtl, deleted, lastResult>>
    /\ UNCHANGED <<docVars, queueVars, callVars, lockVars, daemonVars>>

\* queuescan returns; ScanQueueWorker.shutdown starts with queue.join().
WalkerDone ==
    /\ cpc = "walk" /\ walkLeft = <<>>
    /\ cpc' = "qjoin"
    /\ UNCHANGED <<cfg, vol, dataIndex, gran, cur, walkLeft, oldIds, abort, shutdownEv,
                   scanQ, scanUnf, wpc, wtask, wleft, folder, tq, tunf, tpc, titem,
                   elasticQ, eUnf, staging, sinkDied, sinkCtl, deleted, lastResult>>
    /\ UNCHANGED <<docVars, queueVars, callVars, lockVars, daemonVars>>

\* ScanQueueWorker.shutdown: queue.join() returns, _shutdown.set().
ScanJoinReturn ==
    /\ cpc = "qjoin"
    /\ JoinReturns(Cancellable("scan"), scanUnf, abort)
    /\ shutdownEv' = TRUE
    /\ cpc' = "pjoin"
    /\ UNCHANGED <<cfg, vol, dataIndex, gran, cur, walkLeft, oldIds, abort,
                   scanQ, scanUnf, wpc, wtask, wleft, folder, tq, tunf, tpc, titem,
                   elasticQ, eUnf, staging, sinkDied, sinkCtl, deleted, lastResult>>
    /\ UNCHANGED <<docVars, queueVars, callVars, lockVars, daemonVars>>

\* Mutant of PoolJoinReturn: the abort event is not looked at.
PoolJoinReturnNoAbortCheck ==
    /\ cpc = "pjoin"
    /\ \A w \in Workers : wpc[w] = "exited"
    /\ cpc' = "aggregate"
    /\ UNCHANGED <<cfg, vol, dataIndex, gran, cur, walkLeft, oldIds, abort, shutdownEv,
                   scanQ, scanUnf, wpc, wtask, wleft, folder, tq, tunf, tpc, titem,
                   elasticQ, eUnf, staging, sinkDied, sinkCtl, deleted, lastResult>>
    /\ UNCHANGED <<docVars, queueVars, callVars, lockVars, daemonVars>>

\* Mutant of PoolJoinReturn: the abort event is looked at only after the
\* supersession of the earlier scans of the path.
PoolJoinReturnSupersedesFirst ==
    /\ cpc = "pjoin"
    /\ \A w \in Workers : wpc[w] = "exited"
    /\ IF abort
       THEN LET old == {i \in 1..Len(vol) : /\ i # cur
                                            /\ vol[i].path = vol[cur].path
                                            /\ NeedsSupersede(vol[i].status)}
            IN  /\ dataIndex' = {d \in dataIndex : d.scan \notin old}
                /\ vol' = [i \in 1..Len(vol) |->
                              IF i \in old
                              THEN [vol[i] EXCEPT !.status = SupersedeStatus(@)]
                              ELSE vol[i]]
                /\ deleted' = deleted \cup old
                /\ cpc' = "idle" /\ lastResult' = "abort"
       ELSE /\ cpc' = "aggregate" /\ lastResult' = lastResult
            /\ UNCHANGED <<vol, dataIndex, deleted>>
    /\ UNCHANGED <<cfg, gran, cur, walkLeft, oldIds, abort, shutdownEv,
                   scanQ, scanUnf, wpc, wtask, wleft, folder, tq, tunf, tpc, titem,
                   elasticQ, eUnf, staging, sinkDied, sinkCtl>>
    /\ UNCHANGED <<docVars, queueVars, callVars, lockVars, daemonVars>>

\* ScanQueueWorker.shutdown: _pl.join() returns once every worker has left
\* scanner.worker; then lines 46-47: AbortError if the abort event is set.
PoolJoinReturn ==
    /\ cpc = "pjoin"
    /\ \A w \in Workers : wpc[w] = "exited"
    /\ IF abort
       THEN cpc' = "idle" /\ lastResult' = "abort"
       ELSE cpc' = "aggregate" /\ lastResult' = lastResult
    /\ UNCHANGED <<cfg, vol, dataIndex, gran, cur, walkLeft, oldIds, abort, shutdownEv,
                   scanQ, scanUnf, wpc, wtask, wleft, folder, tq, tunf, tpc, titem,
                   elasticQ, eUnf, staging, sinkDied, sinkCtl, deleted>>
    /\ UNCHANGED <<docVars, queueVars, callVars, lockVars, daemonVars>>

\* Lines 50-66: the roll-up queries succeed and their records are written to
\* the aggregate index; then the scan ids of the path are queried.
AggregateOk ==
    /\ cpc = "aggregate"
    /\ gran' = gran \cup GranularRecords(cur)
    /\ vol' = [vol EXCEPT ![cur].agg = "ok"]
    /\ oldIds' = ScanIdsOf(vol[cur].path)
    /\ cpc' = "ejoin"
    /\ UNCHANGED <<cfg, dataIndex, cur, walkLeft, abort, shutdownEv,
                   scanQ, scanUnf, wpc, wtask, wleft, folder, tq, tunf, tpc, titem,
                   elasticQ, eUnf, staging, sinkDied, sinkCtl, deleted, lastResult>>
    /\ UNCHANGED <<docVars, queueVars, callVars, lockVars, daemonVars>>

\* Mutant of AggregateTimeout: the ConnectionTimeout is not caught and ends
\* the scan.
AggregateTimeoutFatal ==
    /\ cpc = "aggregate"
    /\ vol' = [vol EXCEPT ![cur].agg = "timeout"]
    /\ cpc' = "idle"
    /\ lastResult' = "error"
    /\ UNCHANGED <<cfg, dataIndex, gran, cur, walkLeft, oldIds, abort, shutdownEv,
                   scanQ, scanUnf, wpc, wtask, wleft, folder, tq, tunf, tpc, titem,
                   elasticQ, eUnf, staging, sinkDied, sinkCtl, deleted>>
    /\ UNCHANGED <<docVars, queueVars, callVars, lockVars, daemonVars>>

\* Lines 55-56 and 66: a roll-up query raises ConnectionTimeout, nothing is
\* written to the aggregate index; then the scan ids of the path are queried.
AggregateTimeout ==
    /\ cpc = "aggregate"
    /\ vol' = [vol EXCEPT ![cur].agg = "timeout"]
    /\ oldIds' = ScanIdsOf(vol[cur].path)
    /\ cpc' = "ejoin"
    /\ UNCHANGED <<cfg, dataIndex, gran, cur, walkLeft, abort, shutdownEv,
                   scanQ, scanUnf, wpc, wtask, wleft, folder, tq, tunf, tpc, titem,
                   elasticQ, eUnf, staging, sinkDied, sinkCtl, deleted, lastResult>>
    /\ UNCHANGED <<docVars, queueVars, callVars, lockVars, daemonVars>>

\* Mutant of ElasticJoinReturn: the current scan's id stays in old_scan_ids.
ElasticJoinReturnKeepCurrent ==
    /\ cpc = "ejoin"
    /\ JoinReturns(Cancellable("elastic"), eUnf, abort)
    /\ cpc' = "supersede"
    /\ UNCHANGED <<cfg, vol, dataIndex, gran, cur, walkLeft, oldIds, abort, shutdownEv,
                   scanQ, scanUnf, wpc, wtask, wleft, folder, tq, tunf, tpc, titem,
                   elasticQ, eUnf, staging, sinkDied, sinkCtl, deleted, lastResult>>
    /\ UNCHANGED <<docVars, queueVars, callVars, lockVars, daemonVars>>

\* Lines 69-75: elastic_q.join() returns; the current scan's id is removed
\* from old_scan_ids.
ElasticJoinReturn ==
    /\ cpc = "ejoin"
    /\ JoinReturns(Cancellable("elastic"), eUnf, abort)
    /\ oldIds' = RemoveId(oldIds, cur)
    /\ cpc' = "supersede"
    /\ UNCHANGED <<cfg, vol, dataIndex, gran, cur, walkLeft, abort, shutdownEv,
                   scanQ, scanUnf, wpc, wtask, wleft, folder, tq, tunf, tpc, titem,
                   elasticQ, eUnf, staging, sinkDied, sinkCtl, deleted, lastResult>>
    /\ UNCHANGED <<docVars, queueVars, callVars, lockVars, daemonVars>>

\* Lines 76-92: one iteration of the supersession loop.
SupersedeOne ==
    /\ cpc = "supersede" /\ oldIds # <<>>
    /\ LET id == Head(oldIds)[1]
       IN  IF NeedsSupersede(vol[id].status)
           THEN /\ dataIndex' = {d \in dataIndex : d.scan # id}
                /\ vol' = [vol EXCEPT ![id].status = SupersedeStatus(@)]
                /\ deleted' = deleted \cup {id}
           ELSE UNCHANGED <<dataIndex, vol, deleted>>
    /\ oldIds' = Tail(oldIds)
    /\ UNCHANGED <<cfg, gran, cpc, cur, walkLeft, abort, shutdownEv,
                   scanQ, scanUnf, wpc, wtask, wleft, folder, tq, tunf, tpc, titem,
                   elasticQ, eUnf, staging, sinkDied, sinkCtl, lastResult>>
    /\ UNCHANGED <<docVars, queueVars, callVars, lockVars, daemonVars>>

\* Lines 95-96: Volume.add_endofscan and save; scan_single_gws returns.
Finalize ==
    /\ cpc = "supersede" /\ oldIds = <<>>
    /\ vol' = [vol EXCEPT ![cur] = [@ EXCEPT !.status = "complete",
                                             !.count = CountOfScan(cur),
                                             !.end_timestamp = EndTime(cur)]]
    /\ cpc' = "idle"
    /\ lastResult' = "ok"
    /\ deleted' = {}
    /\ UNCHANGED <<cfg, dataIndex, gran, cur, walkLeft, oldIds, abort, shutdownEv,
                   scanQ, scanUnf, wpc, wtask, wleft, folder, tq, tunf, tpc, titem,
                   elasticQ, eUnf, staging, sinkDied, sinkCtl>>
    /\ UNCHANGED <<docVars, queueVars, callVars, lockVars, daemonVars>>

\* ---- Stage A: scanner.worker ----

coordVars == <<cfg, vol, dataIndex, gran, cpc, cur, walkLeft, oldIds, deleted, lastResult,
               sinkDied, sinkCtl>>

\* Line 83: the loop ends when shutdown or abort is set; line 128: the
\* thread_q.join() of the cleanup.
WLoopExit(w) ==
    /\ wpc[w] = "get"
    /\ shutdownEv \/ abort
    /\ wpc' = [wpc EXCEPT ![w] = "cleanup"]
    /\ UNCHANGED <<coordVars, abort, shutdownEv, scanQ, scanUnf, wtask, wleft, folder,
                   tq, tunf, tpc, titem, elasticQ, eUnf, staging>>
    /\ UNCHANGED <<docVars, queueVars, callVars, lockVars, daemonVars>>

\* Lines 84-97: a task is taken from the queue and its folder constructed.
WTake(w) ==
    /\ wpc[w] = "get"
    /\ ~(shutdownEv \/ abort)
    /\ scanQ # <<>>
    /\ LET task == Head(scanQ)
           work == WorkOf(cfg.tree, task)
       IN  /\ wtask' = [wtask EXCEPT ![w] = task]
           /\ folder' = [folder EXCEPT ![w] = FileNew(cur, task.dir)]
           /\ wleft' = [wleft EXCEPT ![w] = work]
           /\ wpc' = [wpc EXCEPT ![w] = IF work = <<>> THEN "join" ELSE "work"]
    /\ scanQ' = Tail(scanQ)
    /\ UNCHANGED <<coordVars, abort, shutdownEv, scanUnf, tq, tunf, tpc, titem,
                   elasticQ, eUnf, staging>>
    /\ UNCHANGED <<docVars, queueVars, callVars, lockVars, daemonVars>>

\* Lines 84-97 with the lstat of the task's directory failing with
\* FileNotFoundError / PermissionError: folder is an object whose constructor
\* returned after the warning.
WTakeMissing(w) ==
    /\ wpc[w] = "get"
    /\ ~(shutdownEv \/ abort)
    /\ scanQ # <<>>
    /\ Head(scanQ).dir \in cfg.vanish
    /\ LET task == Head(scanQ)
           work == WorkOf(cfg.tree, task)
       IN  /\ wtask' = [wtask EXCEPT ![w] = task]
           /\ folder' = [folder EXCEPT ![w] = FileBroken(cur, task.dir)]
           /\ wleft' = [wleft EXCEPT ![w] = work]
           /\ wpc' = [wpc EXCEPT ![w] = IF work = <<>> THEN "join" ELSE "work"]
    /\ scanQ' = Tail(scanQ)
    /\ UNCHANGED <<coordVars, abort, shutdownEv, scanUnf, tq, tunf, tpc, titem,
                   elasticQ, eUnf, staging>>
    /\ UNCHANGED <<docVars, queueVars, callVars, lockVars, daemonVars>>

\* Mutant of WPutAbsorb: the put does not wait for room on the absorb queue.
WPutAbsorbUnbounded(w) ==
    /\ wpc[w] = "work" /\ Head(wleft[w]).op = "absorb"
    /\ tq' = [tq EXCEPT ![w] = Append(@, Head(wleft[w]).path)]
    /\ tunf' = [tunf EXCEPT ![w] = @ + 1]
    /\ wleft' = [wleft EXCEPT ![w] = Tail(@)]
    /\ wpc' = [wpc EXCEPT ![w] = IF Tail(wleft[w]) = <<>> THEN "join" ELSE "work"]
    /\ UNCHANGED <<coordVars, abort, shutdownEv, scanQ, scanUnf, wtask, folder,
                   tpc, titem, elasticQ, eUnf, staging>>
    /\ UNCHANGED <<docVars, queueVars, callVars, lockVars, daemonVars>>

\* Lines 106-121: thread_q.put((folder, path)); blocks while the absorb queue
\* is full.
WPutAbsorb(w) ==
    /\ wpc[w] = "work" /\ Head(wleft[w]).op = "absorb"
    /\ Len(tq[w]) < AbsorbQCap
    /\ tq' = [tq EXCEPT ![w] = Append(@, Head(wleft[w]).path)]
    /\ tunf' = [tunf EXCEPT ![w] = @ + 1]
    /\ wleft' = [wleft EXCEPT ![w] = Tail(@)]
    /\ wpc' = [wpc EXCEPT ![w] = IF Tail(wleft[w]) = <<>> THEN "join" ELSE "work"]
    /\ UNCHANGED <<coordVars, abort, shutdownEv, scanQ, scanUnf, wtask, folder,
                   tpc, titem, elasticQ, eUnf, staging>>
    /\ UNCHANGED <<docVars, queueVars, callVars, lockVars, daemonVars>>

\* Lines 99-104: outqueue.put(models.File(filepath, ...).to_dict(True)); blocks
\* while the Stage-C queue is full.
WPutFileDoc(w) ==
    /\ wpc[w] = "work" /\ Head(wleft[w]).op = "emit"
    /\ Len(elasticQ) < ElasticQCap
    /\ elasticQ' = Append(elasticQ, DocOf(FileNew(cur, Head(wleft[w]).path), 0))
    /\ eUnf' = eUnf + 1
    /\ wleft' = [wleft EXCEPT ![w] = Tail(@)]
    /\ wpc' = [wpc EXCEPT ![w] = IF Tail(wleft[w]) = <<>> THEN "join" ELSE "work"]
    /\ UNCHANGED <<coordVars, abort, shutdownEv, scanQ, scanUnf, wtask, folder,
                   tq, tunf, tpc, titem, staging>>
    /\ UNCHANGED <<docVars, queueVars, callVars, lockVars, daemonVars>>

\* Line 123: thread_q.join() returns.
WJoinReturn(w) ==
    /\ wpc[w] = "join"
    /\ JoinReturns(Cancellable("absorb"), tunf[w], abort)
    /\ wpc' = [wpc EXCEPT ![w] = "emit"]
    /\ UNCHANGED <<coordVars, abort, shutdownEv, scanQ, scanUnf, wtask, wleft, folder,
                   tq, tunf, tpc, titem, elasticQ, eUnf, staging>>
    /\ UNCHANGED <<docVars, queueVars, callVars, lockVars, daemonVars>>

\* The absorptions of worker w's folder that are still on thread_q or inside
\* incorporate_child in a thread.
AbsorbsOpen(w) ==
    Len(tq[w]) + Cardinality({t \in AbsThreads : tpc[w][t] = "inc"})

\* Mutant of WEmit: inqueue.task_done() without the put of the folder's
\* document.
WEmitDoneWithoutPut(w) ==
    /\ wpc[w] = "emit"
    /\ ~folder[w].broken
    /\ scanUnf' = scanUnf - 1
    /\ wtask' = [wtask EXCEPT ![w] = NoTask]
    /\ wpc' = [wpc EXCEPT ![w] = "get"]
    /\ UNCHANGED <<coordVars, abort, shutdownEv, scanQ, wleft, folder,
                   tq, tunf, tpc, titem, elasticQ, eUnf, staging>>
    /\ UNCHANGED <<docVars, queueVars, callVars, lockVars, daemonVars>>

\* Lines 124-125: outqueue.put(folder.to_dict(True)) and inqueue.task_done().
WEmit(w) ==
    /\ wpc[w] = "emit"
    /\ ~folder[w].broken
    /\ Len(elasticQ) < ElasticQCap
    /\ elasticQ' = Append(elasticQ, DocOf(folder[w], AbsorbsOpen(w)))
    /\ eUnf' = eUnf + 1
    /\ scanUnf' = scanUnf - 1
    /\ wtask' = [wtask EXCEPT ![w] = NoTask]
    /\ wpc' = [wpc EXCEPT ![w] = "get"]
    /\ UNCHANGED <<coordVars, abort, shutdownEv, scanQ, wleft, folder,
                   tq, tunf, tpc, titem, staging>>
    /\ UNCHANGED <<docVars, queueVars, callVars, lockVars, daemonVars>>

\* Line 124 for a folder whose constructor skipped esd.Document.__init__:
\* to_dict raises AttributeError, which ends scanner.worker and with it the
\* process, before the put and before inqueue.task_done().  The pool, still
\* running, replaces the process by a new one that starts scanner.worker
\* again with a new absorb queue and thread pool.
WEmitBroken(w) ==
    /\ wpc[w] = "emit"
    /\ folder[w].broken
    /\ wpc' = [wpc EXCEPT ![w] = "get"]
    /\ wtask' = [wtask EXCEPT ![w] = NoTask]
    /\ wleft' = [wleft EXCEPT ![w] = <<>>]
    /\ folder' = [folder EXCEPT ![w] = NoDoc]
    /\ tq' = [tq EXCEPT ![w] = <<>>]
    /\ tunf' = [tunf EXCEPT ![w] = 0]
    /\ tpc' = [tpc EXCEPT ![w] = [t \in AbsThreads |-> "get"]]
    /\ titem' = [titem EXCEPT ![w] = [t \in AbsThreads |-> NoPath]]
    /\ UNCHANGED <<coordVars, abort, shutdownEv, scanQ, scanUnf, elasticQ, eUnf, staging>>
    /\ UNCHANGED <<docVars, queueVars, callVars, lockVars, daemonVars>>

\* Lines 128-131: the cleanup's thread_q.join() returns, innershutdown.set(),
\* thread_p.close().
WCleanup(w) ==
    /\ wpc[w] = "cleanup"
    /\ JoinReturns(Cancellable("absorb"), tunf[w], abort)
    /\ wpc' = [wpc EXCEPT ![w] = "tjoin"]
    /\ UNCHANGED <<coordVars, abort, shutdownEv, scanQ, scanUnf, wtask, wleft, folder,
                   tq, tunf, tpc, titem, elasticQ, eUnf, staging>>
    /\ UNCHANGED <<docVars, queueVars, callVars, lockVars, daemonVars>>

\* Line 132: thread_p.join() returns once every thread has left threadworker;
\* scanner.worker returns and the process ends, its folder and absorb queue
\* with it.
WExit(w) ==
    /\ wpc[w] = "tjoin"
    /\ \A t \in AbsThreads : tpc[w][t] = "exited"
    /\ wpc' = [wpc EXCEPT ![w] = "exited"]
    /\ wtask' = [wtask EXCEPT ![w] = NoTask]
    /\ wleft' = [wleft EXCEPT ![w] = <<>>]
    /\ folder' = [folder EXCEPT ![w] = NoDoc]
    /\ tq' = [tq EXCEPT ![w] = <<>>]
    /\ tunf' = [tunf EXCEPT ![w] = 0]
    /\ UNCHANGED <<coordVars, abort, shutdownEv, scanQ, scanUnf, tpc, titem,
                   elasticQ, eUnf, staging>>
    /\ UNCHANGED <<docVars, queueVars, callVars, lockVars, daemonVars>>

\* ---- Stage B: scanner.threadworker ----

\* innershutdown of worker w is set from its cleanup on.
InnerShutdown(w) == wpc[w] \in {"tjoin", "exited"}

\* Line 143: the loop ends when shutdown or abort is set.
TLoopExit(w, t) ==
    /\ tpc[w][t] = "get"
    /\ InnerShutdown(w) \/ abort
    /\ tpc' = [tpc EXCEPT ![w][t] = "exited"]
    /\ UNCHANGED <<coordVars, abort, shutdownEv, scanQ, scanUnf, wpc, wtask, wleft,
                   folder, tq, tunf, titem, elasticQ, eUnf, staging>>
    /\ UNCHANGED <<docVars, queueVars, callVars, lockVars, daemonVars>>

\* Lines 144-145: an item is taken from the absorb queue.
TTake(w, t) ==
    /\ tpc[w][t] = "get"
    /\ ~(InnerShutdown(w) \/ abort)
    /\ tq[w] # <<>>
    /\ titem' = [titem EXCEPT ![w][t] = Head(tq[w])]
    /\ tq' = [tq EXCEPT ![w] = Tail(@)]
    /\ tpc' = [tpc EXCEPT ![w][t] = "inc"]
    /\ UNCHANGED <<coordVars, abort, shutdownEv, scanQ, scanUnf, wpc, wtask, wleft,
                   folder, tunf, elasticQ, eUnf, staging>>
    /\ UNCHANGED <<docVars, queueVars, callVars, lockVars, daemonVars>>

\* Lines 149 and 154: incorporate_child with lstat succeeding, task_done().
TIncorporate(w, t) ==
    /\ tpc[w][t] = "inc"
    /\ ~folder[w].broken
    /\ folder' = [folder EXCEPT ![w] = Incorporated(@, titem[w][t])]
    /\ tunf' = [tunf EXCEPT ![w] = @ - 1]
    /\ titem' = [titem EXCEPT ![w][t] = NoPath]
    /\ tpc' = [tpc EXCEPT ![w][t] = "get"]
    /\ UNCHANGED <<coordVars, abort, shutdownEv, scanQ, scanUnf, wpc, wtask, wleft,
                   tq, elasticQ, eUnf, staging>>
    /\ UNCHANGED <<docVars, queueVars, callVars, lockVars, daemonVars>>

\* Mutant of TIncorporateMissing: the warning path leaves threadworker's loop
\* body before task_done().
TIncorporateMissingNoDone(w, t) ==
    /\ tpc[w][t] = "inc"
    /\ folder' = [folder EXCEPT ![w].missed = @ + 1]
    /\ titem' = [titem EXCEPT ![w][t] = NoPath]
    /\ tpc' = [tpc EXCEPT ![w][t] = "get"]
    /\ UNCHANGED <<coordVars, abort, shutdownEv, scanQ, scanUnf, wpc, wtask, wleft,
                   tq, tunf, elasticQ, eUnf, staging>>
    /\ UNCHANGED <<docVars, queueVars, callVars, lockVars, daemonVars>>

\* Lines 149 and 154: incorporate_child with lstat failing with
\* FileNotFoundError / PermissionError (a warning), task_done().
TIncorporateMissing(w, t) ==
    /\ tpc[w][t] = "inc"
    /\ folder' = [folder EXCEPT ![w].missed = @ + 1]
    /\ tunf' = [tunf EXCEPT ![w] = @ - 1]
    /\ titem' = [titem EXCEPT ![w][t] = NoPath]
    /\ tpc' = [tpc EXCEPT ![w][t] = "get"]
    /\ UNCHANGED <<coordVars, abort, shutdownEv, scanQ, scanUnf, wpc, wtask, wleft,
                   tq, elasticQ, eUnf, staging>>
    /\ UNCHANGED <<docVars, queueVars, callVars, lockVars, daemonVars>>

\* Lines 150-152: incorporate_child raises another OSError: abort.set() and
\* the thread leaves threadworker by the exception, without task_done().
TIncorporateOSError(w, t) ==
    /\ tpc[w][t] = "inc"
    /\ abort' = TRUE
    /\ folder' = [folder EXCEPT ![w].failed = @ + 1]
    /\ titem' = [titem EXCEPT ![w][t] = NoPath]
    /\ tpc' = [tpc EXCEPT ![w][t] = "exited"]
    /\ UNCHANGED <<coordVars, shutdownEv, scanQ, scanUnf, wpc, wtask, wleft,
                   tq, tunf, elasticQ, eUnf, staging>>
    /\ UNCHANGED <<docVars, queueVars, callVars, lockVars, daemonVars>>

\* Line 149 with lstat succeeding on a folder whose constructor skipped
\* esd.Document.__init__: "self.size += ..." raises AttributeError, not an
\* OSError, so the thread leaves threadworker without abort.set() and without
\* task_done(); the thread pool replaces it by a new thread.
TIncorporateBroken(w, t) ==
    /\ tpc[w][t] = "inc"
    /\ folder[w].broken
    /\ titem' = [titem EXCEPT ![w][t] = NoPath]
    /\ tpc' = [tpc EXCEPT ![w][t] = "get"]
    /\ UNCHANGED <<coordVars, abort, shutdownEv, scanQ, scanUnf, wpc, wtask, wleft,
                   folder, tq, tunf, elasticQ, eUnf, staging>>
    /\ UNCHANGED <<docVars, queueVars, callVars, lockVars, daemonVars>>

\* ---- Stage C: elastic.worker ----

\* The staging size at which the worker sends without waiting for a timeout.
FlushThreshold == Max(SinkMinBatch, cfg.scale)

scanVars == <<abort, shutdownEv, scanQ, scanUnf, wpc, wtask, wleft, folder, tq, tunf,
              tpc, titem>>

\* Whether the Stage-C queue can stay empty for the timeout of get (10 s)
\* after n documents: the producers are silent then, or the sink is being
\* shut down.
QuietAt(n) == cfg.quiet = {} \/ n \in cfg.quiet \/ sinkShut

\* Lines 117-128: get and task_done, then the bulk write if staging has
\* reached the threshold.
SinkTake ==
    /\ sinkDied = -1 /\ sinkPc = "run"
    /\ elasticQ # <<>>
    /\ LET st == Append(staging, Head(elasticQ))
       IN  IF Len(st) >= FlushThreshold
           THEN dataIndex' = dataIndex \cup {st[i] : i \in 1..Len(st)} /\ staging' = <<>>
           ELSE dataIndex' = dataIndex /\ staging' = st
    /\ elasticQ' = Tail(elasticQ)
    /\ eUnf' = eUnf - 1
    /\ UNCHANGED <<cfg, vol, gran, cpc, cur, walkLeft, oldIds, deleted, lastResult,
                   sinkDied, sinkCtl, scanVars>>
    /\ UNCHANGED <<docVars, queueVars, callVars, lockVars, daemonVars>>

\* Mutant of SinkTimeout: staging is sent but not cleared.
SinkTimeoutKeepStaging ==
    /\ sinkDied = -1 /\ sinkPc = "run"
    /\ elasticQ = <<>> /\ QuietAt(sinkFed)
    /\ staging # <<>>
    /\ dataIndex' = dataIndex \cup {staging[i] : i \in 1..Len(staging)}
    /\ UNCHANGED <<cfg, vol, gran, cpc, cur, walkLeft, oldIds, deleted, lastResult,
                   sinkDied, sinkCtl, scanVars, elasticQ, eUnf, staging>>
    /\ UNCHANGED <<docVars, queueVars, callVars, lockVars, daemonVars>>

\* Lines 119-128: get times out on the empty queue (queue.Empty), and staging
\* is sent by one bulk write.
SinkTimeout ==
    /\ sinkDied = -1 /\ sinkPc = "run"
    /\ elasticQ = <<>> /\ QuietAt(sinkFed)
    /\ staging # <<>>
    /\ dataIndex' = dataIndex \cup {staging[i] : i \in 1..Len(staging)}
    /\ staging' = <<>>
    /\ UNCHANGED <<cfg, vol, gran, cpc, cur, walkLeft, oldIds, deleted, lastResult,
                   sinkDied, sinkCtl, scanVars, elasticQ, eUnf>>
    /\ UNCHANGED <<docVars, queueVars, callVars, lockVars, daemonVars>>

\* Lines 119-128: get times out and esh.bulk raises (a refused document, a
\* lost connection).  Nothing in elastic.worker catches it: the sink process
\* ends and its staging list is gone; ElasticQueueWorker starts no other.
SinkWriteFails ==
    /\ sinkDied = -1 /\ sinkPc = "run" /\ cfg.sinkfail
    /\ elasticQ = <<>>
    /\ staging # <<>>
    /\ staging' = <<>>
    /\ sinkDied' = IF cpc = "idle" THEN 0 ELSE cur
    /\ UNCHANGED <<cfg, vol, dataIndex, gran, cpc, cur, walkLeft, oldIds, deleted,
                   lastResult, scanVars, elasticQ, eUnf, sinkCtl>>
    /\ UNCHANGED <<docVars, queueVars, callVars, lockVars, daemonVars>>

\* ---- The sink on its own (SpecSink) ----

\* The number of documents the producers of SpecSink put.
SinkDocs == 1003

\* The runs of SpecSink: Stage-C queues of one and of two places, fed with
\* SinkDocs documents, the producers pausing after the second or third.
SinkConfigs ==
    { [ procs |-> 1, threads |-> 1, scale |-> sc, tree |-> TreeSeq,
        policy |-> PolicyMain, scans |-> 0, vanish |-> {}, sinkfail |-> FALSE, raises |-> FALSE,
        quiet |-> {sc + 1} ] : sc \in {1, 2} }

\* scanner.worker lines 103 and 124, outqueue.put: the next document (its
\* number standing for it) is put; put blocks while the queue is full, and
\* nothing is put once ElasticQueueWorker.shutdown has begun.
SinkFeed ==
    /\ sinkFed < SinkDocs /\ ~sinkShut
    /\ Len(elasticQ) < ElasticQCap
    /\ elasticQ' = Append(elasticQ, sinkFed + 1)
    /\ eUnf' = eUnf + 1
    /\ sinkFed' = sinkFed + 1
    /\ UNCHANGED <<cfg, vol, dataIndex, gran, cpc, cur, walkLeft, oldIds, deleted,
                   lastResult, scanVars, staging, sinkDied, sinkShut, sinkPc>>
    /\ UNCHANGED <<docVars, queueVars, callVars, lockVars, daemonVars>>

\* ElasticQueueWorker.shutdown lines 91-95: queue.join() returns and
\* _shutdown is set.
SinkShutdown ==
    /\ ~sinkShut /\ eUnf = 0
    /\ sinkShut' = TRUE
    /\ UNCHANGED <<cfg, vol, dataIndex, gran, cpc, cur, walkLeft, oldIds, deleted,
                   lastResult, scanVars, elasticQ, eUnf, staging, sinkDied, sinkPc,
                   sinkFed>>
    /\ UNCHANGED <<docVars, queueVars, callVars, lockVars, daemonVars>>

\* elastic.worker line 114: the loop ends when shutdown is set and staging
\* is empty.
SinkExit ==
    /\ sinkPc = "run" /\ sinkDied = -1
    /\ sinkShut /\ staging = <<>>
    /\ sinkPc' = "exited"
    /\ UNCHANGED <<cfg, vol, dataIndex, gran, cpc, cur, walkLeft, oldIds, deleted,
                   lastResult, scanVars, elasticQ, eUnf, staging, sinkDied, sinkShut,
                   sinkFed>>
    /\ UNCHANGED <<docVars, queueVars, callVars, lockVars, daemonVars>>

\* The steps of one scan: coordinator, walker, Stage A and Stage B.
ScanStep ==
    \/ LifecycleRaises
    \/ WalkerRaises
    \/ WalkerPut
    \/ WalkerDone
    \/ ScanJoinReturn
    \/ PoolJoinReturn
    \/ AggregateOk
    \/ AggregateTimeout
    \/ ElasticJoinReturn
    \/ SupersedeOne
    \/ Finalize
    \/ \E w \in Workers : WLoopExit(w)
    \/ \E w \in Workers : WTake(w)
    \/ \E w \in Workers : WTakeMissing(w)
    \/ \E w \in Workers : WPutAbsorb(w)
    \/ \E w \in Workers : WPutFileDoc(w)
    \/ \E w \in Workers : WJoinReturn(w)
    \/ \E w \in Workers : WEmit(w)
    \/ \E w \in Workers : WEmitBroken(w)
    \/ \E w \in Workers : WCleanup(w)
    \/ \E w \in Workers : WExit(w)
    \/ \E w \in Workers : \E t \in AbsThreads : TLoopExit(w, t)
    \/ \E w \in Workers : \E t \in AbsThreads : TTake(w, t)
    \/ \E w \in Workers : \E t \in AbsThreads : TIncorporate(w, t)
    \/ \E w \in Workers : \E t \in AbsThreads : TIncorporateMissing(w, t)
    \/ \E w \in Workers : \E t \in AbsThreads : TIncorporateOSError(w, t)
    \/ \E w \in Workers : \E t \in AbsThreads : TIncorporateBroken(w, t)

PipeNext ==
    \/ \E p \in VolPaths : ScanStart(p)
    \/ ScanStep
    \/ SinkTake
    \/ SinkTimeout
    \/ SinkWriteFails

(***************************************************************************)
(* Specifications.                                                         *)
(***************************************************************************)
InitDoc == InitDocVars /\ QueueIdle /\ PipeIdle /\ CallIdle /\ LockIdle /\ DaemonIdle
NextDoc == DocNext
SpecDoc == InitDoc /\ [][NextDoc]_vars

InitQueue == DocIdle /\ InitQueueVars /\ PipeIdle /\ CallIdle /\ LockIdle /\ DaemonIdle
NextQueue == QueueNext
SpecQueue == InitQueue /\ [][NextQueue]_vars

Init == DocIdle /\ QueueIdle /\ InitPipeVars /\ CallIdle /\ LockIdle /\ DaemonIdle
Next == PipeNext
Spec == Init /\ [][Next]_vars

\* The Walker alone: queuescan filling a queue that is long enough to hold
\* every task and that nobody empties, for each tree and each scan policy of
\* WalkConfigs.
InitWalk == DocIdle /\ QueueIdle /\ InitWalkVars /\ CallIdle /\ LockIdle /\ DaemonIdle
NextWalk ==
    \/ \E p \in VolPaths : ScanStart(p)
    \/ WalkerPut
    \/ WalkerDone
SpecWalk == InitWalk /\ [][NextWalk]_vars

\* The classifier alone: get_size_bin and get_time_bin called on the sizes
\* and ages of Sizes and Ages.
InitBins == DocIdle /\ QueueIdle /\ PipeIdle /\ InitBinVars /\ LockIdle /\ DaemonIdle
NextBins ==
    \/ SizeLookup
    \/ TimeLookup
SpecBins == InitBins /\ [][NextBins]_vars

InitSinkVars ==
    /\ cfg \in SinkConfigs
    /\ vol = <<>> /\ dataIndex = {} /\ gran = {} /\ cpc = "idle" /\ cur = 0
    /\ walkLeft = <<>> /\ oldIds = <<>> /\ abort = FALSE /\ shutdownEv = FALSE
    /\ scanQ = <<>> /\ scanUnf = 0
    /\ wpc = [w \in Workers |-> "exited"]
    /\ wtask = [w \in Workers |-> NoTask]
    /\ wleft = [w \in Workers |-> <<>>]
    /\ folder = [w \in Workers |-> NoDoc]
    /\ tq = [w \in Workers |-> <<>>]
    /\ tunf = [w \in Workers |-> 0]
    /\ tpc = [w \in Workers |-> [t \in AbsThreads |-> "exited"]]
    /\ titem = [w \in Workers |-> [t \in AbsThreads |-> NoPath]]
    /\ elasticQ = <<>> /\ eUnf = 0 /\ staging = <<>>
    /\ deleted = {} /\ lastResult = "none" /\ sinkDied = -1
    /\ sinkShut = FALSE /\ sinkPc = "run" /\ sinkFed = 0

\* The sink alone: producers, elastic.worker and ElasticQueueWorker.shutdown.
InitSink == DocIdle /\ QueueIdle /\ InitSinkVars /\ CallIdle /\ LockIdle /\ DaemonIdle
NextSink ==
    \/ SinkFeed
    \/ SinkTake
    \/ SinkTimeout
    \/ SinkShutdown
    \/ SinkExit
SpecSink == InitSink /\ [][NextSink]_vars

\* gws_config alone, called on each input of ConfigInputs.
InitConfig == DocIdle /\ QueueIdle /\ PipeIdle /\ InitConfigVars /\ LockIdle /\ DaemonIdle
NextConfig == ConfigLookup
SpecConfig == InitConfig /\ [][NextConfig]_vars

\* File.__lock alone: the absorb threads of the Stage-A processes entering
\* and leaving the with block of incorporate_child, each for the folder of
\* its own process.
InitLock == DocIdle /\ QueueIdle /\ PipeIdle /\ CallIdle /\ InitLockVars /\ DaemonIdle
NextLock ==
    \/ \E x \in LThreads : LockCall(x)
    \/ \E x \in LThreads : LockEnter(x)
    \/ \E x \in LThreads : LockLeave(x)
SpecLock == InitLock /\ [][NextLock]_vars

InitDaemon == DocIdle /\ QueueIdle /\ PipeIdle /\ CallIdle /\ LockIdle /\ InitDaemonVars
NextDaemon ==
    \/ DaemonList
    \/ DaemonListFails
    \/ DaemonSkip
    \/ DaemonScanOk
    \/ DaemonScanAbort
    \/ DaemonScanRaises
    \/ DaemonPassEnd
SpecDaemon == InitDaemon /\ [][NextDaemon]_vars

(***************************************************************************)
(* Properties.                                                             *)
(***************************************************************************)
AllDocs ==
    {elasticQ[i] : i \in 1..Len(elasticQ)} \cup {staging[i] : i \in 1..Len(staging)}
        \cup dataIndex

NotYetDurable ==
    {elasticQ[i] : i \in 1..Len(elasticQ)} \cup {staging[i] : i \in 1..Len(staging)}

C2_DeleteAfterDurable ==
    deleted # {} => \A d \in NotYetDurable : d.scan # cur

\* C3 (as claimed): a scan that returned the abort error has set its
\* lifecycle document to failed.
C3_AbortMarksFailed ==
    (cpc = "idle" /\ lastResult = "abort") => vol[cur].status = "failed"

\* C4 (as claimed): no directory document was put on the Stage-C queue while
\* absorptions targeting it were still queued or running.
C4_EmitAfterAbsorb ==
    \A d \in AllDocs : d.pending = 0

\* C5 (as claimed): once the abort signal is set, the scan is never stuck
\* for good: scan_single_gws has returned, or one of the coordinator, the
\* Walker, the Stage-A processes, the Stage-B threads and the sink they may be
\* waiting for can take a step.
C5_AbortTerminates ==
    abort => (cpc = "idle" \/ ENABLED ScanStep \/ ENABLED SinkTake \/ ENABLED SinkTimeout)

\* C6 (as claimed): for each of the three queues, a join waiting with
\* unfinished tasks can return once abort is set, and a join that returned
\* with abort not set saw an unfinished-task count of zero.
C6_JoinOrAbort ==
    \A q \in DOMAIN qjoin :
        /\ (qjoin[q] = "waiting" /\ qunf[q] > 0 /\ qabort) => ENABLED QJoinReturn(q)
        /\ (qjoinlog[q] # NoLog /\ ~qjoinlog[q].abort) => qjoinlog[q].unf = 0

RECURSIVE SumMapSize(_, _)
SumMapSize(m, keys) ==
    IF keys = {} THEN SzZero
    ELSE LET k == CHOOSE x \in keys : TRUE
         IN  SzAdd(m[k].size, SumMapSize(m, keys \ {k}))

RECURSIVE SumMapCount(_, _)
SumMapCount(m, keys) ==
    IF keys = {} THEN 0
    ELSE LET k == CHOOSE x \in keys : TRUE
         IN  m[k].count + SumMapCount(m, keys \ {k})

MapsOf(d) == <<d.filetypes, d.size_bins, d.heat_bins, d.users>>

NoCallMidUpdate == \A t \in DOMAIN dpc : dpc[t] \notin {"w1", "w2"}

\* C7 (as claimed): whenever no incorporate_child call is mid-update, the
\* document's size and count equal the sums over each of its four bucket
\* maps, count >= 1 and size >= the directory's own size.
C7_BucketSums ==
    (dstate = "built" /\ NoCallMidUpdate) =>
        /\ \A i \in 1..4 :
              /\ SumMapSize(MapsOf(doc)[i], DOMAIN MapsOf(doc)[i]) = doc.size
              /\ SumMapCount(MapsOf(doc)[i], DOMAIN MapsOf(doc)[i]) = doc.count
        /\ doc.count >= 1
        /\ SzLeq(rootStat.size, doc.size)

RECURSIVE SumStatSize(_, _)
SumStatSize(stats, idx) ==
    IF idx = {} THEN SzZero
    ELSE LET c == CHOOSE x \in idx : TRUE
         IN  SzAdd(stats[c].size, SumStatSize(stats, idx \ {c}))

OneBucket(m, size) ==
    /\ Cardinality(DOMAIN m) = 1
    /\ \A k \in DOMAIN m : m[k] = [count |-> 1, size |-> size]

NothingIncorporated ==
    /\ \A c \in DOMAIN outcome : outcome[c] = "none"
    /\ \A t \in DOMAIN dpc : dpc[t] # "w2"

LstatSucceeded == {c \in DOMAIN outcome : outcome[c] \in {"ok", "raised"}}

NoCallRunning == \A t \in DOMAIN dpc : dpc[t] \in {"idle", "dead"}

RECURSIVE SumStatHeat(_, _)
SumStatHeat(stats, idx) ==
    IF idx = {} THEN 0
    ELSE LET c == CHOOSE x \in idx : TRUE
         IN  stats[c].heat + SumStatHeat(stats, idx \ {c})

\* C11 (as claimed): whenever no incorporate_child call is mid-update,
\* mean_heat * count equals the sum of the ages of the inodes counted in the
\* document (the directory itself and every child whose lstat succeeded).
C11_MeanHeat ==
    (dstate = "built" /\ NoCallMidUpdate) =>
        /\ doc.mean_heat.d % doc.count = 0
        /\ doc.mean_heat.n =
              (rootStat.heat + SumStatHeat(childStat, LstatSucceeded))
                  * (doc.mean_heat.d \div doc.count)

\* The number of absorptions Stage A enqueues for the document of path p.
AbsorbCount(p) ==
    IF p \in cfg.tree.dirs
    THEN LET work == WorkOf(cfg.tree, TaskOf(cfg.tree, cfg.policy, p))
         IN  Cardinality({i \in 1..Len(work) : work[i].op = "absorb"})
    ELSE 0

SameFolder(w) ==
    /\ folder[w] # NoDoc /\ folder'[w] # NoDoc
    /\ folder'[w].scan = folder[w].scan /\ folder'[w].path = folder[w].path

C12_State ==
    /\ \A d \in AllDocs :
          (d.pending = 0 /\ d.failed = 0) => d.count + d.missed = 1 + AbsorbCount(d.path)
    /\ \A w \in DOMAIN folder :
          (folder[w] # NoDoc /\ ~folder[w].broken) =>
              tunf[w] = AbsorbsOpen(w) + folder[w].failed

C12_Step ==
    \A w \in DOMAIN folder :
        (SameFolder(w) /\ folder'[w].missed > folder[w].missed) =>
            /\ folder'[w] = [folder[w] EXCEPT !.missed = @ + 1]
            /\ abort' = abort
            /\ tunf'[w] = tunf[w] - 1

\* C12: an absorption whose lstat fails with NotFound / PermissionDenied
\* leaves the directory document as it was, does not set abort and marks the
\* absorb task done; so every absorb task of a document is open, failed with
\* another OSError, or done, and a document emitted with none open or failed
\* counts itself and every child whose lstat succeeded.
C12_MissingChildSkipped == []C12_State /\ [][C12_Step]_vars

\* Witness of C12: a scan has completed although a child of one of its
\* documents could not be lstat'ed.
C12_Witness ==
    /\ cpc = "idle" /\ cur > 0 /\ vol[cur].status = "complete"
    /\ \E d \in dataIndex : d.scan = cur /\ d.missed > 0

C13_State == abort => \A g \in gran : g.scan # cur

C13_Step ==
    \A w \in DOMAIN folder :
        (SameFolder(w) /\ folder'[w].failed > folder[w].failed) => abort'

\* C13: an absorption that raises an OSError other than NotFound /
\* PermissionDenied sets the abort signal, and no granular record of a scan
\* whose abort signal is set is in the aggregate index.
C13_AbortNoGranular == []C13_State /\ [][C13_Step]_vars

\* Witness of C13: a scan has returned the abort error after some of its
\* documents reached the data index.
C13_Witness ==
    /\ abort /\ cpc = "idle" /\ lastResult = "abort"
    /\ \E d \in dataIndex : d.scan = cur

\* C14 (as claimed): for a task whose directory could not be lstat'ed no
\* absorption is enqueued or executed, and the task is marked done (every
\* unfinished task of the walker -> Stage A queue is on the queue or held by
\* a worker).
C14_MissingDirDropped ==
    /\ \A w \in DOMAIN folder :
          (folder[w] # NoDoc /\ folder[w].broken) =>
              (tq[w] = <<>> /\ \A t \in AbsThreads : tpc[w][t] # "inc")
    /\ scanUnf = Len(scanQ) + Cardinality({w \in DOMAIN wtask : wtask[w] # NoTask})

\* The number of path components between the scan root and d.
ComponentsBelowRoot(d) == Len(d)

\* The Walker's rule for the tasks put so far, with dep as the depth of a
\* directory: the aggregation flag follows the rule; an aggregated directory
\* carries all its subdirectories and has no task for a descendant; once the
\* walk is over each subdirectory of any other directory has exactly one task.
WalkerRule(dep(_)) ==
    \A i \in 1..Len(scanQ) :
        LET t == scanQ[i]
            d == t.dir
        IN  /\ t.aggregate_subdirs <=>
                  \/ dep(d) >= cfg.policy.scan_depth
                  \/ d \in cfg.policy.aggregate_subdir_paths
                  \/ BaseName(cfg.policy, d) \in cfg.policy.aggregate_subdir_names
            /\ t.aggregate_subdirs =>
                  /\ t.dirnames = SubDirs(cfg.tree, d)
                  /\ \A j \in 1..Len(scanQ) : ~IsBelow(scanQ[j].dir, d)
            /\ (~t.aggregate_subdirs /\ cpc = "qjoin") =>
                  \A c \in {x \in cfg.tree.dirs : IsChild(x, d)} :
                      Cardinality({j \in 1..Len(scanQ) : scanQ[j].dir = c}) = 1

\* C15 (as claimed): for every directory the Walker visits, aggregate_subdirs
\* is true iff depth(D) >= scan_depth or D is an aggregate path or its name an
\* aggregate name, depth being the number of components below the root; an
\* aggregated directory carries all its subdirectories and none of its
\* descendants gets a task, any other directory's subdirectories get one each.
C15_AggregateRule == WalkerRule(ComponentsBelowRoot)

\* The same rule with the depth queuescan computes.
WalkerRuleOwnDepth == WalkerRule(Depth)

\* A step of the supersession loop: the loop moves on in old_scan_ids.
SupersessionStep == cpc = "supersede" /\ oldIds # <<>> /\ oldIds' = Tail(oldIds)

C16_Step ==
    SupersessionStep =>
        LET id == Head(oldIds)[1]
        IN  /\ id # cur /\ vol[id].path = vol[cur].path
            /\ vol'[cur] = vol[cur]
            /\ {d \in dataIndex : d.scan = cur} \subseteq dataIndex'
            /\ \A i \in 1..Len(vol) : i # id => vol'[i] = vol[i]
            /\ vol[id].status = "complete" => vol'[id].status = "removed"
            /\ vol[id].status = "in_progress" => vol'[id].status = "failed"
            /\ vol[id].status \in {"complete", "in_progress"} =>
                  \A d \in dataIndex' : d.scan # id
            /\ vol[id].status \in {"failed", "removed"} =>
                  (vol'[id] = vol[id] /\ dataIndex' = dataIndex)

C16_State ==
    (cpc = "idle" /\ lastResult = "ok" /\ cur > 0) =>
        \A i \in 1..Len(vol) :
            (i # cur /\ vol[i].path = vol[cur].path) =>
                vol[i].status \in {"removed", "failed"}

C17_FirstScanGone ==
    (cpc = "idle" /\ lastResult = "ok" /\ cur > 1) =>
        \A i \in 1..(cur - 1) :
            (vol[i].path = vol[cur].path /\ vol[i].status \in {"complete", "removed"}) =>
                /\ vol[i].status = "removed"
                /\ \A d \in dataIndex : d.scan # i

\* The documents the scan id has emitted.
EmittedBy(id) == {d \in AllDocs : d.scan = id}

\* C18 (as claimed): when a scan is finalized to complete the data index
\* holds all the documents it emitted, so the count stored in the lifecycle
\* document is the sum of count over the emitted documents.
C18_RollupComplete ==
    (cpc = "idle" /\ lastResult = "ok" /\ cur > 0) =>
        vol[cur].count = SumCount(EmittedBy(cur))

C19_State ==
    \A i \in 1..Len(vol) :
        vol[i].agg = "timeout" =>
            /\ \A g \in gran : g.scan # i
            /\ (i = cur /\ cpc = "idle") => (vol[i].status = "complete" /\ lastResult = "ok")

C19_Step ==
    (cpc = "aggregate" /\ vol'[cur].agg = "timeout") => (gran' = gran /\ cpc' = "ejoin")

\* C19: a connection timeout of a roll-up query writes no granular record
\* of the scan and does not end it: the scan goes on to wait for the sink
\* and, when it returns, it has been finalized to complete.
C19_TimeoutSkipsAggregate == []C19_State /\ [][C19_Step]_vars

\* Witness of C19: a second scan of a path whose aggregation timed out has
\* superseded the first one and is complete.
C19_Witness ==
    /\ cpc = "idle" /\ cur > 1 /\ vol[cur].agg = "timeout" /\ vol[cur].status = "complete"
    /\ \E i \in 1..(cur - 1) : vol[i].path = vol[cur].path /\ vol[i].status = "removed"

\* C20 (as claimed): after a successful scan whose aggregation succeeded,
\* each bucket with a non-zero count summed over the documents the scan
\* emitted has exactly one granular record of the scan, with that count, and
\* a bucket with total zero has none.
C20_GranularComplete ==
    (cpc = "idle" /\ lastResult = "ok" /\ cur > 0 /\ vol[cur].agg = "ok") =>
        \A c \in Categories : \A b \in BucketsOf(AllDocs, c) :
            LET total == BucketSum(EmittedBy(cur), c, b)
                recs  == {g \in gran : g.scan = cur /\ g.category = c /\ g.identifier = b}
            IN  IF total > 0
                THEN Cardinality(recs) = 1 /\ \A g \in recs : g.count = total
                ELSE recs = {}

\* The place of key k in the ordered keys (0 if it is none of them).
BandIndex(keys, k) ==
    IF \E i \in 1..Len(keys) : keys[i] = k
    THEN CHOOSE i \in 1..Len(keys) : keys[i] = k
    ELSE 0

\* The band of the partition that contains the size: the one with the
\* highest lower bound <= size, the first band starting at 0.
SizeBandOf(size) ==
    CHOOSE i \in 1..Len(SIZE_FROM) :
        /\ i = 1 \/ SzLeq(SIZE_FROM[i], size)
        /\ i = Len(SIZE_FROM) \/ ~SzLeq(SIZE_FROM[i + 1], size)

CallsOf(fn) == IF callFn = fn THEN 1..Len(callOut) ELSE {}

\* C21 (as claimed): get_size_bin returns, without error, the key of the
\* band with the highest lower bound <= size.
C21_SizeBand ==
    \A i \in CallsOf("get_size_bin") :
        callOut[i] = SIZE_KEYS[SizeBandOf(callArgs[i])]

\* C22 (as claimed): both lookups are monotone: of two sizes (two ages) the
\* larger one never gets a band with a lower index.
C22_Monotone ==
    /\ (callFn = "get_size_bin" /\ Len(callOut) = 2 /\ SzLeq(callArgs[1], callArgs[2])) =>
          /\ \A i \in 1..2 : BandIndex(SIZE_KEYS, callOut[i]) > 0
          /\ BandIndex(SIZE_KEYS, callOut[1]) <= BandIndex(SIZE_KEYS, callOut[2])
    /\ (callFn = "get_time_bin" /\ Len(callOut) = 2 /\ callArgs[1] <= callArgs[2]) =>
          /\ \A i \in 1..2 : BandIndex(TIME_KEYS, callOut[i]) > 0
          /\ BandIndex(TIME_KEYS, callOut[1]) <= BandIndex(TIME_KEYS, callOut[2])

\* The heat band that contains the age, a band holding the ages above its
\* lower bound up to and including its upper bound (the next band's lower
\* bound); the first band has no lower and the last no upper bound.
HeatBandOf(age) ==
    CHOOSE i \in 1..Len(TIME_FROM) :
        /\ i = 1 \/ TIME_FROM[i] < age
        /\ i = Len(TIME_FROM) \/ age <= TIME_FROM[i + 1]

\* C23: get_time_bin returns the key of the heat band that contains the age
\* now - atime and never an error: two hours give 1h-1d, 400 days 1y-2y,
\* more than 1825 days 5y-*, and every atime in the future gives *-1h.
C23_HeatBand ==
    \A i \in CallsOf("get_time_bin") :
        LET age == callArgs[i]
        IN  /\ callOut[i] = TIME_KEYS[HeatBandOf(age)]
            /\ age = 7200 => callOut[i] = "1h-1d"
            /\ age = 34560000 => callOut[i] = "1y-2y"
            /\ age > 157680000 => callOut[i] = "5y-*"
            /\ age < 0 => callOut[i] = "*-1h"

\* Witness of C23: an atime two days in the future and an atime two hours
\* ago have been looked up.
C23_Witness ==
    /\ callFn = "get_time_bin" /\ Len(callOut) = 2
    /\ callArgs = <<-172800, 7200>> /\ callOut = <<"*-1h", "1h-1d">>

\* C24 (as claimed): without a per-path table, each list field of the
\* effective configuration is the union of the defaults, the volume's own
\* values and the overrides, and scan_depth is the smaller of the merged
\* scan_depth and the overrides' scan_depth.
C24_ConfigUnion ==
    (callFn = "gws_config" /\ Len(callOut) = 1 /\ callArgs[1].configs = EmptyDict) =>
        LET in  == callArgs[1]
            out == callOut[1]
        IN  /\ out # KeyError
            /\ \A k \in ListFields :
                  out[k] = DictGet(in.defaults, k, {}) \cup DictGet(in.user, k, {})
                               \cup DictGet(in.overrides, k, {})
            /\ out["scan_depth"] =
                  Min(DictGet(in.user, "scan_depth", in.defaults["scan_depth"]),
                      DictGet(in.overrides, "scan_depth", NoDepthOverride))

\* C25 (as claimed): a scan during which a bulk write of the sink failed
\* does not end with status complete.
C25_WriteFailureSurfaced ==
    sinkDied > 0 => vol[sinkDied].status # "complete"

SeqSet(q) == {q[i] : i \in 1..Len(q)}

\* The documents the sink has at hand in an iteration that takes one from the
\* queue or times out.
SinkBatch == IF elasticQ # <<>> THEN Append(staging, Head(elasticQ)) ELSE staging

C26_State ==
    /\ SeqSet(elasticQ) \cup SeqSet(staging) \cup dataIndex = 1..sinkFed
    /\ Len(elasticQ) + Len(staging) + Cardinality(dataIndex) = sinkFed
    /\ Len(staging) < FlushThreshold
    /\ sinkPc = "exited" => (sinkShut /\ staging = <<>> /\ dataIndex = 1..sinkFed)

C26_Step ==
    /\ dataIndex' # dataIndex =>
          /\ Len(SinkBatch) >= FlushThreshold \/ elasticQ = <<>>
          /\ SeqSet(SinkBatch) \cap dataIndex = {}
          /\ dataIndex' = dataIndex \cup SeqSet(SinkBatch)
          /\ staging' = <<>>
    /\ (elasticQ # <<>> /\ elasticQ' = Tail(elasticQ) /\ dataIndex' = dataIndex) =>
          (staging' = SinkBatch /\ Len(SinkBatch) < FlushThreshold)
    /\ (elasticQ' = elasticQ /\ staging' # staging) => dataIndex' # dataIndex

\* C26: absent a backend failure every document put on the Stage-C queue is
\* on the queue, in staging or in the data index, and in one of them only;
\* a bulk write happens when the batch has reached max(1000, scale factor)
\* or when the queue is empty, sends documents never sent before and leaves
\* staging empty; staging stays below the threshold between iterations; and
\* the worker has exited only with shutdown set, staging empty and every
\* document written.
C26_SinkWritesOnce == []C26_State /\ [][C26_Step]_vars

\* Witness of C26: a bulk write caused by the threshold alone has happened
\* (no shutdown, and the producers pause only after their first documents).
C26_Witness ==
    /\ cfg.quiet # {} /\ ~sinkShut
    /\ Cardinality(dataIndex) = FlushThreshold /\ staging = <<>>

\* The files directly in directory d.
FilesOf(d) == {f \in cfg.tree.files : IsChild(f, d)}

\* The inodes that a complete document of directory d counts besides d: its
\* files unless they are walked per item, and everything below its
\* subdirectories if d is aggregated.
CountedBelow(d) ==
    (IF WalkItems(cfg.policy, d) THEN 0 ELSE Cardinality(FilesOf(d)))
    + (IF AggregateSubdirs(cfg.policy, d)
       THEN Cardinality({p \in cfg.tree.dirs \cup cfg.tree.files : IsBelow(p, d)})
                - Cardinality(FilesOf(d))
       ELSE 0)

OwedPaths ==
    LET tasks == SeqSet(WalkFrom(cfg.tree, cfg.policy, <<>>))
    IN  {t.dir : t \in tasks}
            \cup UNION {SeqSet(t.files) : t \in {x \in tasks : x.walk_items}}

\* The number of documents of the scan in progress for path p that are on the
\* Stage-C queue, in the sink's staging list or in the data index.
EnqueuedFor(p) ==
    Cardinality({i \in 1..Len(elasticQ) : elasticQ[i].scan = cur /\ elasticQ[i].path = p})
    + Cardinality({i \in 1..Len(staging) : staging[i].scan = cur /\ staging[i].path = p})
    + Cardinality({x \in dataIndex : x.scan = cur /\ x.path = p})

\* No two Stage-A workers hold the same task, and once the join of the scan
\* queue has returned without abort every owed document has been put exactly
\* once.
C28_State ==
    /\ cpc # "idle" =>
          \A w1, w2 \in Workers :
              (w1 # w2 /\ wtask[w1] # NoTask /\ wtask[w2] # NoTask)
                  => wtask[w1].dir # wtask[w2].dir
    /\ (cpc \notin {"idle", "walk", "qjoin"} /\ ~abort /\ sinkDied = -1) =>
          \A p \in OwedPaths : EnqueuedFor(p) = 1

\* A step that marks a task done is taken by the worker holding the task, with
\* nothing of the task left to put or absorb, and appends the task's directory
\* document to the Stage-C queue; every file walked per item has its document
\* enqueued by then.
C28_Step ==
    (cpc # "idle" /\ scanUnf' < scanUnf) =>
        \E w \in Workers :
            /\ wtask[w] # NoTask /\ wtask'[w] = NoTask /\ wleft[w] = <<>>
            /\ Len(elasticQ) < ElasticQCap
            /\ Len(elasticQ') = Len(elasticQ) + 1
            /\ elasticQ'[Len(elasticQ')].path = wtask[w].dir
            /\ elasticQ'[Len(elasticQ')].scan = cur
            /\ (wtask[w].walk_items /\ sinkDied = -1) =>
                  \A i \in 1..Len(wtask[w].files) : EnqueuedFor(wtask[w].files[i]) = 1

\* C28: a Stage-A worker marks its task done only in the step that puts the
\* task's directory document, after the task's per-file documents; so in a
\* run without abort, once the join of the walker -> Stage A queue has
\* returned, every document of the scan has been put on the Stage-C queue
\* once, and no task is held by two workers.
C28_DoneAfterPut == []C28_State /\ [][C28_Step]_vars

\* Witness of C28: the join of the scan queue has returned without abort with
\* two workers, and the per-file document and the directory documents of the
\* scan are on their way to the sink.
C28_Witness ==
    /\ cpc = "pjoin" /\ ~abort /\ sinkDied = -1 /\ cfg.procs > 1
    /\ EnqueuedFor(<<1, 4>>) = 1 /\ EnqueuedFor(<<1>>) = 1 /\ EnqueuedFor(<<>>) = 1
    /\ elasticQ # <<>>

\* The producers that are inside a put: the Walker on the scan queue, worker
\* w on the Stage-C queue, worker w on its absorb queue.
WalkerAtPut == cpc = "walk" /\ walkLeft # <<>>

EmitterAtPut(w) ==
    \/ wpc[w] = "work" /\ Head(wleft[w]).op = "emit"
    \/ wpc[w] = "emit" /\ ~folder[w].broken

AbsorberAtPut(w) == wpc[w] = "work" /\ Head(wleft[w]).op = "absorb"

\* No queue holds more than its capacity.
C29_State ==
    /\ Len(scanQ) <= cfg.procs * cfg.scale
    /\ Len(elasticQ) <= cfg.scale
    /\ \A w \in 1..cfg.procs : Len(tq[w]) <= cfg.threads * cfg.scale

\* A producer inside a put on a full queue stays where it is, and the queue
\* does not grow.
C29_Step ==
    /\ (WalkerAtPut /\ Len(scanQ) = cfg.procs * cfg.scale) =>
          (walkLeft' = walkLeft /\ cpc' = cpc /\ Len(scanQ') <= Len(scanQ))
    /\ \A w \in 1..cfg.procs :
          /\ (EmitterAtPut(w) /\ Len(elasticQ) = cfg.scale) =>
                (wpc'[w] = wpc[w] /\ wleft'[w] = wleft[w] /\ Len(elasticQ') <= Len(elasticQ))
          /\ (AbsorberAtPut(w) /\ Len(tq[w]) = cfg.threads * cfg.scale) =>
                (wpc'[w] = wpc[w] /\ wleft'[w] = wleft[w] /\ Len(tq'[w]) <= Len(tq[w]))

\* C29: the scan queue never holds more than scan_processes *
\* queue_length_scale_factor tasks, the Stage-C queue never more than
\* queue_length_scale_factor documents, an absorb queue never more than
\* scan_max_threads_per_process * queue_length_scale_factor items, and a
\* producer whose queue is full does not move until an item has been taken.
C29_BoundedQueues == []C29_State /\ [][C29_Step]_vars

\* Witness of C29: with queue_length_scale_factor 2 and one absorb thread the
\* absorb queue holds two items and the worker waits to put a third.
C29_Witness ==
    /\ cfg.scale = 2 /\ cfg.threads = 1
    /\ Len(tq[1]) = 2 /\ AbsorberAtPut(1)

\* Thread x is at "with self.__lock" and the lock object it needs is held.
LockWaits(x) == lthread[x] = "acquire" /\ rlock[LockOf(x[1])] # NoOwner

\* C30: a thread that has to wait for the lock waits for a thread that updates
\* the same document, never for a thread (of its own or of another Stage-A
\* process) that updates a different one.
C30_LockPerDocument ==
    \A x \in LThreads :
        LockWaits(x) => DocumentOf(rlock[LockOf(x[1])]) = DocumentOf(x)

\* What does hold of File.__lock: at most one thread is inside the with block
\* per lock object, and it is the one recorded as the holder.
LockMutex ==
    \A x, y \in LThreads :
        (lthread[x] = "held" /\ lthread[y] = "held" /\ LockOf(x[1]) = LockOf(y[1]))
            => x = y

\* The inodes Stage A counts for a task: the task's directory (the folder
\* document itself), then the path of each per-file document and of each
\* absorption, in the order of scanner.worker.
CountedIn(task) ==
    <<task.dir>> \o [i \in 1..Len(WorkOf(cfg.tree, task)) |-> WorkOf(cfg.tree, task)[i].path]

\* How often inode p is counted by the tasks the Walker has put.
TimesCounted(p) ==
    Cardinality(UNION {{<<i, j>> : j \in {k \in 1..Len(CountedIn(scanQ[i])) :
                                              CountedIn(scanQ[i])[k] = p}} :
                           i \in 1..Len(scanQ)})

\* C31: for each tree and each scan policy, no inode is counted twice by the
\* tasks the Walker has put, and once the walk is over every inode of the
\* tree, the root included, is counted exactly once: in the document of its
\* own task, in a per-file document, or absorbed into the document of an
\* aggregated ancestor.
C31_EveryInodeOnce ==
    \A p \in cfg.tree.dirs \cup cfg.tree.files :
        /\ TimesCounted(p) <= 1
        /\ cpc = "qjoin" => TimesCounted(p) = 1

\* Witness of C31: the walk of /t/sub/x is over with sub walked per item and
\* aggregated by name: the root and sub have a task, x has none.
C31_Witness ==
    /\ cpc = "qjoin" /\ cfg.tree = TreeDeep /\ Len(scanQ) = 2
    /\ scanQ[2].dir = <<1>> /\ scanQ[2].walk_items /\ scanQ[2].aggregate_subdirs
    /\ CountedIn(scanQ[2]) = <<<<1>>, <<1, 3>>, <<1, 2>>, <<1, 2, 4>>>>

\* The directory holding d (d is not the root).
ParentOf(d) == SubSeq(d, 1, Len(d) - 1)

\* C32 (as claimed): for every directory the Walker has put a task for, the
\* depth it computed is the number of path components between the scan root
\* and the directory, 0 for the root and the parent's depth plus one for any
\* other; and where nothing is aggregated by path or name, the directories
\* aggregated are exactly those scan_depth or more levels below the root.
C32_DepthIsComponents ==
    \A i \in 1..Len(scanQ) :
        LET d == scanQ[i].dir
        IN  /\ Depth(d) = ComponentsBelowRoot(d)
            /\ d # <<>> => Depth(d) = Depth(ParentOf(d)) + 1
            /\ (cfg.policy.aggregate_subdir_paths = {} /\ cfg.policy.aggregate_subdir_names = {})
                  => (scanQ[i].aggregate_subdirs <=> ComponentsBelowRoot(d) >= cfg.policy.scan_depth)

\* C33 (as claimed): whenever scan_single_gws is not running, every Stage-A
\* process and every Stage-B thread of the scans it ran has ended.
C33_PoolShutDownOnExit ==
    cpc = "idle" =>
        \A w \in Workers :
            wpc[w] = "exited" /\ \A t \in AbsThreads : tpc[w][t] = "exited"

\* C34 (as claimed): while the abort signal is not set, every unfinished task
\* of an absorb queue is an item still on the queue or in the hands of a
\* thread that will mark it done, so a Stage-A worker waiting in
\* thread_q.join() is never waiting for nothing.
C34_ItemDoneOrAbort ==
    \A w \in Workers :
        (~abort /\ wpc[w] # "exited") => tunf[w] = AbsorbsOpen(w)

\* A step that takes a document out of the data index.
RemovesData == \E d \in dataIndex : d \notin dataIndex'

\* A step that changes the lifecycle document of a scan other than the one in
\* progress.
ChangesOtherVolume == \E i \in 1..Len(vol) : i # cur /\ vol'[i] # vol[i]

\* C35: a scan that ends with the abort error deletes no data-index document
\* and changes no lifecycle document but its own: documents are removed and
\* other scans' lifecycle documents changed only in the supersession loop,
\* which runs only with the abort event clear, while the abort error leaves
\* the scan at the end of the pool join with the event set and nothing
\* deleted.
C35_AbortTouchesNothing ==
    /\ []((cpc = "idle" /\ lastResult = "abort") => deleted = {})
    /\ [][(RemovesData \/ ChangesOtherVolume) => (cpc = "supersede" /\ ~abort)]_vars
    /\ [][(cpc # "idle" /\ cpc' = "idle" /\ lastResult' = "abort")
             => (cpc = "pjoin" /\ abort /\ deleted = {}
                 /\ dataIndex' = dataIndex /\ vol' = vol)]_vars

\* C35 witness: a scan has ended with the abort error while an earlier scan of
\* the same path is complete and has its documents in the data index.
C35_Witness ==
    /\ cpc = "idle" /\ lastResult = "abort" /\ cur > 1
    /\ \E i \in 1..(cur - 1) :
           /\ vol[i].path = vol[cur].path
           /\ vol[i].status = "complete"
           /\ \E d \in dataIndex : d.scan = i

\* The sum of the counts of the buckets keys of a pipeline bucket map.
RECURSIVE CatTotal(_, _)
CatTotal(m, keys) ==
    IF keys = {} THEN 0
    ELSE LET k == CHOOSE x \in keys : TRUE
         IN  m[k] + CatTotal(m, keys \ {k})

\* A step in which worker w puts the snapshot of its directory document on the
\* Stage-C queue.
TakesSnapshot(w) ==
    /\ wpc[w] = "emit" /\ wpc'[w] = "get"
    /\ Len(elasticQ') = Len(elasticQ) + 1

\* C36 (as claimed): every document on the Stage-C queue has bucket counts
\* that add up to its inode count in each category, no absorb thread is inside
\* incorporate_child on a directory document at the step that puts its
\* snapshot on the queue, and none changes the document once the snapshot has
\* been put (the worker has gone back to take its next task).
C36_FrozenAtDrain ==
    /\ [](\A i \in 1..Len(elasticQ) : \A c \in Categories :
             CatTotal(elasticQ[i].cats[c], DOMAIN elasticQ[i].cats[c]) = elasticQ[i].count)
    /\ [][\A w \in Workers :
             /\ TakesSnapshot(w) => \A t \in AbsThreads : tpc[w][t] # "inc"
             /\ (wpc[w] = "get" /\ wpc'[w] = "get") => folder'[w] = folder[w]]_vars

\* C37 (as claimed): every granular record of a scan carries the scan's
\* start_timestamp, and once the scan's lifecycle document has been finalized
\* the record's end_timestamp is the one stored in that document.
C37_RecordTimestamps ==
    \A r \in gran :
        /\ r.start_timestamp = vol[r.scan].start_timestamp
        /\ vol[r.scan].end_timestamp # NoTime
              => r.end_timestamp = vol[r.scan].end_timestamp

\* A scan that has been finalized (add_endofscan has run for it).
Finalized(i) == vol[i].end_timestamp # NoTime

\* Scan j is a later scan of the path of scan i that has returned finalized.
ReturnedAfter(i, j) ==
    /\ i < j /\ vol[i].path = vol[j].path
    /\ Finalized(j)
    /\ j = cur => cpc = "idle"

\* C38 (as claimed): once a later scan of the same path has returned
\* successfully, a scan that ended with the abort error has the status failed
\* and no document of it is in the data index, then or later.
C38_AbortedScanCleared ==
    \A i, j \in 1..Len(vol) :
        (ReturnedAfter(i, j) /\ ~Finalized(i)) =>
            /\ vol[i].status = "failed"
            /\ \A d \in dataIndex : d.scan # i

\* A step of the daemon that pops a path from toscan.
Popped == daemonPc = "scan" /\ Len(extra_to_scan') = Len(extra_to_scan) - 1

C39_State ==
    daemonPc # "none" =>
        /\ fail_count <= daemonCfg.fail_threshold
        /\ IF daemonPc = "fatal"
           THEN /\ fail_count = daemonCfg.fail_threshold
                /\ abortsSince = fail_count + 1
           ELSE fail_count = abortsSince

C39_Step ==
    /\ (daemonPc # "fatal" /\ daemonPc' = "fatal")
          <=> (Popped /\ lastScan' = "abort" /\ fail_count = daemonCfg.fail_threshold)
    /\ (Popped /\ lastScan' = "ok") => fail_count' = 0

\* C39: while the daemon loop runs fail_count is the number of scans ended by
\* the abort error since the last successful scan and is at most
\* fail_threshold; the fatal abort error is raised exactly by a scan that
\* aborts with fail_count equal to fail_threshold; a successful scan sets
\* fail_count to 0.
C39_FailCount == []C39_State /\ [][C39_Step]_vars

\* C39 witness: with a threshold above zero the fatal abort error has been
\* raised by the scan that aborted after fail_threshold aborted scans in a
\* row.
C39_Witness ==
    /\ daemonPc = "fatal" /\ daemonCfg.fail_threshold > 0
    /\ lastScan = "abort"
    /\ abortsSince = daemonCfg.fail_threshold + 1

\* s has no entry twice.
NoDuplicates(s) == \A i, j \in 1..Len(s) : s[i] = s[j] => i = j

\* C40 (as claimed): before and after each pass extra_to_scan is as
\* configured, and the list of each pass holds every configured extra path,
\* no path twice, and no path of never_scan that is not a configured extra
\* path.
C40_ConfigUnchanged ==
    /\ daemonPc \in {"list", "stopped"} => extra_to_scan = daemonCfg.extra_to_scan
    /\ daemonPc = "scan" =>
          /\ \A i \in 1..Len(daemonCfg.extra_to_scan) :
                 InList(daemonCfg.extra_to_scan[i], listed)
          /\ NoDuplicates(listed)
          /\ \A i \in 1..Len(listed) :
                 listed[i] \in daemonCfg.never_scan
                     => InList(listed[i], daemonCfg.extra_to_scan)

====
